---- MODULE Spec2Model ----
(***************************************************************************)
(* Time-window route sweep engine of the HERE transit proxy                *)
(* (src/unnamed/part_000, second server file, lines 187-722):              *)
(*   - candidate time generator        (sweepTransit, lines 576-586)       *)
(*   - bounded-concurrency executor    (runPool, lines 221-235)            *)
(*   - keyed LRU cache + in-flight bag (lruGet/lruSet/inflight, 466-479)   *)
(*   - route provider adapter          (hereTransitOnce, 484-562)          *)
(*   - sweep orchestrator              (sweepTransit, 576-601)             *)
(*                                                                         *)
(* JavaScript runs one job at a time: every action below is one job of the *)
(* event loop (a synchronous call, or one promise reaction), and the       *)
(* interleavings TLC explores are the orders in which the jobs can run.    *)
(***************************************************************************)
EXTENDS Integers, Sequences, FiniteSets, TLC

VARIABLES
    \* candidate generator
    cq,          \* the query handed to the generator
    candidates,  \* the candidate instants built from it
    cpc,         \* "ready" before the loop ran, "done" after
    \* bounded-concurrency executor (one runPool call)
    pool,        \* the closure of runPool: items, limit, out, i, active, done
    wk,          \* the worker invocation of every item index
    \* keyed cache + in-flight deduplicator
    cache,       \* the cache Map, as the sequence of its entries in insertion order
    bag,         \* the in-flight Map: key -> promise (the id of its computation)
    computes,    \* every computation started so far, by id
    callers,     \* the concurrent callers of resolve
    \* sweep orchestrator
    upstream,    \* what the routing provider answers for every instant
    sw,          \* the sweepTransit calls
    mq,          \* the microtask queue: the promise reactions still to run this turn
    \* one cache Map under lruGet / lruSet
    lru,         \* the Map, with the history of its accesses
    \* unified sweep of the Google proxy
    best,        \* one sweepBest call (src/server.js)
    \* route provider adapter and its cache key
    ad,          \* one hereTransitOnce call: the upstream answer and what it returns
    kq,          \* two route queries and the keys hereTransitOnceCached builds
    \* round-trip handler
    hd,          \* one GET /itinerary request (src/server.js)
    \* the Node process
    proc         \* "up", "unhandled" (a rejected promise without a handler is
                 \* waiting for the end of the running job), "exited"

candVars  == <<cq, candidates, cpc>>
poolVars  == <<pool, wk>>
cacheVars == <<cache, bag, computes, callers>>
sweepVars == <<upstream, sw, mq>>
lruVars   == <<lru>>
entryVars == <<best>>
adapterVars == <<ad, kq>>
itinVars  == <<hd>>
procVars  == <<proc>>
vars == <<cq, candidates, cpc, pool, wk, cache, bag, computes, callers, upstream, sw, mq,
          lru, best, ad, kq, hd, proc>>

\* a component that takes no part in a specification
Off == [st |-> "off"]

(***************************************************************************)
(* Generic helpers                                                         *)
(***************************************************************************)
Max(a, b) == IF a >= b THEN a ELSE b
Min(a, b) == IF a <= b THEN a ELSE b

\* Math.ceil(a / b) for a >= 0, b > 0
CeilDiv(a, b) == (a + b - 1) \div b

Range(s) == { s[x] : x \in DOMAIN s }

(***************************************************************************)
(* Candidate time generator: sweepTransit, lines 576-586                   *)
(***************************************************************************)
MAX_PROBES == 8

MaxWindow == 70     \* windows 0..MaxWindow minutes
MaxStep   == 12     \* steps 0..MaxStep minutes (0 takes the `|| 10` default)
BaseTs    == 100000 \* the anchor instant, unix seconds

Modes == {"arrive", "depart"}

\* x || d on numbers: 0 is falsy
OrDefault(x, d) == IF x = 0 THEN d ELSE x

\* line 579
EffStepMutNoCap(windowMin, stepMin) == OrDefault(stepMin, 10)
EffStep(windowMin, stepMin) ==
    Max(OrDefault(stepMin, 10), CeilDiv(OrDefault(windowMin, 60), MAX_PROBES))

\* lines 581-582
StartOff(mode, windowMin) == IF mode = "arrive" THEN -windowMin ELSE 0
EndOffMutWindow(mode, windowMin) == windowMin

EndOff(mode, windowMin)   == IF mode = "arrive" THEN 0 ELSE windowMin

\* line 585: for (let m = startOff; m <= endOff; m += effStep) candidates.push(baseTs + m*60)
RECURSIVE CandLoop(_, _, _, _)
CandLoop(m, endOff, effStep, baseTs) ==
    IF m <= endOff
    THEN <<baseTs + m * 60>> \o CandLoop(m + effStep, endOff, effStep, baseTs)
    ELSE <<>>

\* lines 579-586
Candidates(baseTs, mode, windowMin, stepMin) ==
    LET c == CandLoop(StartOff(mode, windowMin), EndOff(mode, windowMin),
                      EffStep(windowMin, stepMin), baseTs)
    IN  IF Len(c) = 0 THEN <<baseTs>> ELSE c

CandQueries ==
    [windowMin : 0..MaxWindow, stepMin : 0..MaxStep, mode : Modes, baseTs : {BaseTs}]

NoQuery == [windowMin |-> 0, stepMin |-> 0, mode |-> "depart", baseTs |-> 0]

\* the candidate-building prefix of sweepTransit, run on the query cq
Generate ==
    /\ cpc = "ready"
    /\ candidates' = Candidates(cq.baseTs, cq.mode, cq.windowMin, cq.stepMin)
    /\ cpc' = "done"
    /\ UNCHANGED <<lruVars, entryVars, adapterVars, itinVars, procVars, cq, poolVars, cacheVars, sweepVars>>

(***************************************************************************)
(* Bounded-concurrency executor: runPool, lines 221-235                    *)
(*                                                                         *)
(* The closure of one runPool call is a record:                            *)
(*   items, limit        the arguments                                     *)
(*   out                 the results array (a slot is Hole until written)  *)
(*   i, active, done     the three counters of line 223                    *)
(*   called              next() of line 233 has run                        *)
(*   returned            res(out) of line 230 has run                      *)
(* Item indexes are 1-based here: index idx is the code's idx + 1, and the *)
(* counter i is the number of items already handed to a worker.            *)
(***************************************************************************)
MaxItems == 4    \* item lists of 0..MaxItems items
MaxLimit == 3    \* limits 1..MaxLimit

Hole == [t |-> "hole"]     \* a slot of `new Array(n)` never assigned

\* lines 222-223
NewPool(items, limit) ==
    [items |-> items, limit |-> limit,
     out |-> [x \in 1..Len(items) |-> Hole],
     i |-> 0, active |-> 0, done |-> 0,
     called |-> FALSE, returned |-> FALSE]

\* how many workers the while loop of line 226 starts
PoolRoomMutNoLimit(P) == Len(P.items) - P.i
PoolRoom(P) == Max(0, Min(P.limit - P.active, Len(P.items) - P.i))

\* the item indexes the while loop starts, in order
PoolStarts(P) == [k \in 1..PoolRoom(P) |-> P.i + k]

\* lines 225-232: next()
PoolNext(P) ==
    [P EXCEPT !.i = P.i + PoolRoom(P), !.active = P.active + PoolRoom(P)]

\* line 229: .then(v => { out[idx] = v; }); a rejection passes through
PoolThenMutStoreError(P, idx, w) ==
    [P EXCEPT !.out[idx] = IF w.st = "fulfilled" THEN w.v ELSE [t |-> "error"]]
PoolThenMutPush(P, idx, w) ==
    IF w.st = "fulfilled" THEN [P EXCEPT !.out[P.done + 1] = w.v] ELSE P
PoolThen(P, idx, w) ==
    IF w.st = "fulfilled" THEN [P EXCEPT !.out[idx] = w.v] ELSE P

\* line 230, first half: active--; done++; if (done === items.length) res(out)
PoolSettledMutOffByOne(P) ==
    LET Q == [P EXCEPT !.active = P.active - 1, !.done = P.done + 1]
    IN  IF Q.done >= Len(Q.items) - 1 THEN [Q EXCEPT !.returned = TRUE] ELSE Q
PoolSettled(P) ==
    LET Q == [P EXCEPT !.active = P.active - 1, !.done = P.done + 1]
    IN  IF Q.done = Len(Q.items) THEN [Q EXCEPT !.returned = TRUE] ELSE Q

\* line 230, second half: else next()
PoolFinally(P) ==
    LET Q == PoolSettled(P)
    IN  IF Q.done = Len(Q.items) THEN Q ELSE PoolNext(Q)

\* the indexes the finally callback hands to a worker
PoolFinallyStarts(P) ==
    LET Q == PoolSettled(P)
    IN  IF Q.done = Len(Q.items) THEN <<>> ELSE PoolStarts(Q)

(***************************************************************************)
(* One runPool call with an arbitrary worker: the worker invocation of an  *)
(* index is idle, running, then fulfilled with a value or rejected; the    *)
(* two reactions chained on it (then, finally) are two further jobs.       *)
(***************************************************************************)
WorkerValues == { [t |-> "val", v |-> x] : x \in 1..2 }

\* n counts the invocations of the worker for the index; at is the rank of its
\* then reaction among all then reactions run so far (history, not program state)
IdleWorker == [st |-> "idle", n |-> 0, v |-> Hole, at |-> 0]

Reacted(w) == { x \in DOMAIN w : w[x].at > 0 }

\* line 228: worker(items[idx], idx) is called for every index in `started`
StartWorkers(w, started) ==
    [idx \in DOMAIN w |->
        IF idx \in Range(started)
        THEN [w[idx] EXCEPT !.st = "running", !.n = w[idx].n + 1]
        ELSE w[idx]]

\* the invocations whose then or finally reaction is queued
Reacting(w) ==
    { idx \in DOMAIN w : w[idx].st \in {"fulfilled", "rejected", "then", "thenFailed"} }

\* the promise of invocation idx can settle: the invocation is running and
\* the process has not ended. The worker is any function, so one job of
\* the event loop may settle any number of invocations, each any number of
\* microtasks after the other; after a rejection went unhandled the job
\* that is running may still settle further invocations before it ends.
CanSettle(w, idx) ==
    /\ proc # "exited"
    /\ w[idx].st = "running"

\* lines 228-230: the promise .finally() returns is dropped, so when the
\* worker's promise rejected, that promise rejects with no handler: Node
\* (15 and later, no 'unhandledRejection' listener installed) ends the
\* process when the running job and its microtasks are done
AfterFinally(p, failed) == IF failed /\ p = "up" THEN "unhandled" ELSE p

\* line 233: the call of runPool runs next() once
RunPoolCall ==
    /\ proc = "up"
    /\ ~pool.called
    /\ pool' = PoolNext([pool EXCEPT !.called = TRUE])
    /\ wk' = StartWorkers(wk, PoolStarts(pool))
    /\ UNCHANGED <<lruVars, entryVars, candVars, adapterVars, itinVars, procVars, cacheVars, sweepVars>>

\* the promise of a worker invocation is fulfilled
WorkerFulfils(idx) ==
    /\ CanSettle(wk, idx)
    /\ \E v \in WorkerValues :
          wk' = [wk EXCEPT ![idx].st = "fulfilled", ![idx].v = v]
    /\ UNCHANGED <<lruVars, entryVars, pool, candVars, adapterVars, itinVars, procVars, cacheVars, sweepVars>>

\* the promise of a worker invocation is rejected
WorkerRejects(idx) ==
    /\ CanSettle(wk, idx)
    /\ wk' = [wk EXCEPT ![idx].st = "rejected"]
    /\ UNCHANGED <<lruVars, entryVars, pool, candVars, adapterVars, itinVars, procVars, cacheVars, sweepVars>>

\* line 229: the then reaction
ThenCb(idx) ==
    /\ wk[idx].st \in {"fulfilled", "rejected"}
    /\ pool' = PoolThen(pool, idx, wk[idx])
    /\ wk' = [wk EXCEPT ![idx].st = IF wk[idx].st = "fulfilled" THEN "then" ELSE "thenFailed",
                         ![idx].at = Cardinality(Reacted(wk)) + 1]
    /\ UNCHANGED <<lruVars, entryVars, candVars, adapterVars, itinVars, procVars, cacheVars, sweepVars>>

\* line 230: the finally reaction
FinallyCb(idx) ==
    /\ wk[idx].st \in {"then", "thenFailed"}
    /\ pool' = PoolFinally(pool)
    /\ wk' = StartWorkers(
                [wk EXCEPT ![idx].st = IF wk[idx].st = "then" THEN "done" ELSE "doneFailed"],
                PoolFinallyStarts(pool))
    /\ proc' = AfterFinally(proc, wk[idx].st = "thenFailed")
    /\ UNCHANGED <<lruVars, entryVars, candVars, adapterVars, itinVars, cacheVars, sweepVars>>

\* the job that left a rejection unhandled ends, which it can whenever no
\* reaction or microtask is queued: the process ends with exit code 1
ProcessExits ==
    /\ proc = "unhandled"
    /\ Reacting(wk) = {}
    /\ mq = <<>>
    /\ proc' = "exited"
    /\ UNCHANGED <<lruVars, entryVars, candVars, adapterVars, itinVars, poolVars, cacheVars, sweepVars>>

(***************************************************************************)
(* Keyed cache: lruGet / lruSet, lines 466-471                             *)
(*                                                                         *)
(* A JavaScript Map iterates in insertion order, so a Map is the sequence  *)
(* of its entries [k, v], oldest insertion first.                          *)
(***************************************************************************)
Undefined == [t |-> "undefined"]

MapHas(m, k) == \E x \in DOMAIN m : m[x].k = k
MapGet(m, k) == IF MapHas(m, k) THEN m[CHOOSE x \in DOMAIN m : m[x].k = k].v ELSE Undefined
MapDelete(m, k) == SelectSeq(m, LAMBDA e : e.k # k)
\* Map.prototype.set: a present key keeps its place, a new key goes last
MapSet(m, k, v) ==
    IF MapHas(m, k)
    THEN [x \in DOMAIN m |-> IF m[x].k = k THEN [k |-> k, v |-> v] ELSE m[x]]
    ELSE Append(m, [k |-> k, v |-> v])
MapKeys(m) == { m[x].k : x \in DOMAIN m }

\* line 466: the value lruGet returns
LruGetValueMutMiss(m, k) == Undefined
LruGetValue(m, k) == MapGet(m, k)

\* line 466: the map lruGet leaves behind (a hit moves the entry last)
LruGetMapMutNoRefresh(m, k) == m
LruGetMap(m, k) ==
    IF ~MapHas(m, k) THEN m ELSE MapSet(MapDelete(m, k), k, MapGet(m, k))

\* lines 467-471
lruSetMutNoEvict(m, k, val, max) == MapSet(m, k, val)
lruSetMutDrop(m, k, val, max) == m
lruSet(m, k, val, max) ==
    LET m1 == IF MapHas(m, k) THEN MapDelete(m, k) ELSE m
        m2 == MapSet(m1, k, val)
    IN  IF Len(m2) > max THEN MapDelete(m2, m2[1].k) ELSE m2

\* `if (cached) return cached;` (lines 275, 568): every stored value is an object
Truthy(v) == v # Undefined

(***************************************************************************)
(* In-flight deduplicator: inflight, lines 474-479                         *)
(*                                                                         *)
(* The bag maps a key to the promise p of line 476; a promise is the id of *)
(* its computation in `computes`. A computation is                         *)
(*   pending  the maker is awaiting the upstream                           *)
(*   stored   the maker has stored its value in the cache and returned     *)
(*   threw    the maker has thrown                                         *)
(*   settled  the finally block of line 476 has run and p is settled       *)
(***************************************************************************)
Thrown == [t |-> "thrown"]

\* line 475: bag.has(key)
BagHasMutNever(b, k) == FALSE
BagHas(b, k) == MapHas(b, k)

\* the three ways hereTransitOnceCached / geocode resolve a key, decided in
\* one synchronous run (lines 567-569 with 474-478, or 274-277):
\*   hit     the cache holds the key
\*   attach  a computation of the key is in flight
\*   start   a new computation is started and registered
ResolveKind(m, b, k) ==
    IF Truthy(LruGetValue(m, k)) THEN "hit"
    ELSE IF BagHas(b, k) THEN "attach"
    ELSE "start"

\* the promise the caller ends up awaiting (0: none, the value came from the cache)
ResolveWait(m, b, comps, k) ==
    CASE ResolveKind(m, b, k) = "hit"    -> 0
      [] ResolveKind(m, b, k) = "attach" -> MapGet(b, k)
      [] OTHER                           -> Len(comps) + 1

\* the in-flight bag after the call: line 477, bag.set(key, p)
ResolveBag(m, b, comps, k) ==
    IF ResolveKind(m, b, k) = "start" THEN MapSet(b, k, Len(comps) + 1) ELSE b

\* the computations after the call by `who`: line 476 starts maker(), and
\* the caller awaits the promise it is handed (lines 475, 478); the waiters
\* of a promise are kept in the order they came, the order they resume in
ResolveComputes(m, b, comps, k, args, who) ==
    CASE ResolveKind(m, b, k) = "start" ->
            Append(comps, [key |-> k, args |-> args, st |-> "pending",
                           val |-> Undefined, waiters |-> <<who>>,
                           \* the keys its store pushed out of the cache (history)
                           evicts |-> {}])
      [] ResolveKind(m, b, k) = "attach" ->
            [comps EXCEPT ![MapGet(b, k)].waiters = Append(@, who)]
      [] OTHER -> comps

\* lines 571-572 (291-292, 296-297, 312-313, 317-318): the maker stores and returns
ComputeStored(comps, id, v) == [comps EXCEPT ![id].st = "stored", ![id].val = v]

\* the keys lruSet(m, k, val, max) removes from m (line 470)
LruSetEvicts(m, k, val, max) == MapKeys(m) \ MapKeys(lruSet(m, k, val, max))

\* the maker throws: nothing is stored
ComputeThrew(comps, id) == [comps EXCEPT ![id].st = "threw", ![id].val = Thrown]

\* line 476: finally { bag.delete(key) }, then p settles
FinallyBagMutKeepOnThrow(b, comps, id) ==
    IF comps[id].val = Thrown THEN b ELSE MapDelete(b, comps[id].key)

FinallyBag(b, comps, id) == MapDelete(b, comps[id].key)
FinallySettled(comps, id) == [comps EXCEPT ![id].st = "settled"]

(***************************************************************************)
(* Concurrent calls of resolve on the two cache instances                  *)
(* (GEO_CACHE/GEO_INFLIGHT and TRN_CACHE/TRN_INFLIGHT, lines 323-328).     *)
(* The maker is arbitrary here: it returns a new object, or throws.        *)
(***************************************************************************)
NumCalls   == 3   \* resolve calls 1..NumCalls, numbered in the order they are made
NumKeys    == 2   \* keys 1..NumKeys per cache instance
CacheCap   == 1   \* the capacity handed to lruSet (GEO_CACHE_MAX, TRN_CACHE_MAX scaled down)

Insts == {"GEO", "TRN"}
Keys  == 1..NumKeys

\* every maker run builds a new object: the value of computation id
ValueOf(id) == [t |-> "val", by |-> id]
EmptyCaches == [inst \in Insts |-> <<>>]

IdleCaller ==
    [st |-> "idle", inst |-> "TRN", key |-> 0, wait |-> 0, res |-> Undefined,
     \* what the call found when it was made (history, not program state)
     present |-> FALSE, stored |-> Undefined, started |-> FALSE, saw |-> {}]

\* the computations of a key whose promise has not settled yet
Unsettled(comps, inst, k) ==
    { id \in DOMAIN comps :
        /\ comps[id].args.inst = inst
        /\ comps[id].key = k
        /\ comps[id].st # "settled" }

\* caller c calls resolve(k) on cache instance inst: lines 567-569 / 274-277
Resolve(c, inst, k) ==
    LET m == cache[inst]
        b == bag[inst]
        kind == ResolveKind(m, b, k)
    IN  /\ callers[c].st = "idle"
        /\ IF c = 1 THEN TRUE ELSE callers[c - 1].st # "idle"
        /\ cache' = [cache EXCEPT ![inst] = LruGetMap(m, k)]
        /\ bag' = [bag EXCEPT ![inst] = ResolveBag(m, b, computes, k)]
        /\ computes' = ResolveComputes(m, b, computes, k, [inst |-> inst], c)
        /\ callers' = [callers EXCEPT ![c] =
              [st |-> IF kind = "hit" THEN "got" ELSE "waiting",
               inst |-> inst, key |-> k,
               wait |-> ResolveWait(m, b, computes, k),
               res |-> IF kind = "hit" THEN LruGetValue(m, k) ELSE Undefined,
               present |-> MapHas(m, k),
               stored |-> MapGet(m, k),
               started |-> (Len(ResolveComputes(m, b, computes, k, [inst |-> inst], c)) > Len(computes)),
               saw |-> Unsettled(computes, inst, k)]]
        /\ UNCHANGED <<lruVars, entryVars, candVars, adapterVars, itinVars, procVars, poolVars, sweepVars>>

\* the Map the maker of an instance stores into: geocode stores into
\* GEO_CACHE (lines 291, 296, 312, 317), hereTransitOnceCached into
\* TRN_CACHE (line 571)
StoreCacheMutShared(inst) == "GEO"

StoreCache(inst) == inst

\* the maker of computation id gets its last upstream answer, stores and returns
ComputeReturns(id) ==
    /\ computes[id].st = "pending"
    /\ cache' = [cache EXCEPT ![StoreCache(computes[id].args.inst)] =
                    lruSet(@, computes[id].key, ValueOf(id), CacheCap)]
    /\ computes' = [ComputeStored(computes, id, ValueOf(id)) EXCEPT ![id].evicts =
                        LruSetEvicts(cache[StoreCache(computes[id].args.inst)],
                                     computes[id].key, ValueOf(id), CacheCap)]
    /\ UNCHANGED <<lruVars, entryVars, bag, callers, candVars, adapterVars, itinVars, procVars, poolVars, sweepVars>>

\* the maker of computation id throws (the upstream call fails at network level)
ComputeThrows(id) ==
    /\ computes[id].st = "pending"
    /\ computes' = ComputeThrew(computes, id)
    /\ UNCHANGED <<lruVars, entryVars, cache, bag, callers, candVars, adapterVars, itinVars, procVars, poolVars, sweepVars>>

\* line 476: the finally block of computation id runs and its promise settles
InflightFinally(id) ==
    /\ computes[id].st \in {"stored", "threw"}
    /\ bag' = [bag EXCEPT ![computes[id].args.inst] = FinallyBag(@, computes, id)]
    /\ computes' = FinallySettled(computes, id)
    /\ UNCHANGED <<lruVars, entryVars, cache, callers, candVars, adapterVars, itinVars, procVars, poolVars, sweepVars>>

\* a caller awaiting a settled promise resumes with its outcome
Deliver(c) ==
    /\ callers[c].st = "waiting"
    /\ computes[callers[c].wait].st = "settled"
    /\ callers' = [callers EXCEPT ![c].st = "got", ![c].res = computes[callers[c].wait].val]
    /\ UNCHANGED <<lruVars, entryVars, cache, bag, computes, candVars, adapterVars, itinVars, procVars, poolVars, sweepVars>>

(***************************************************************************)
(* Specifications                                                          *)
(***************************************************************************)
NoPool == NewPool(<<>>, 1)

\* the candidate generator on every query within the bounds
InitCand ==
    /\ cq \in CandQueries
    /\ candidates = <<>>
    /\ cpc = "ready"
    /\ pool = NoPool /\ wk = <<>>
    /\ cache = EmptyCaches /\ bag = EmptyCaches /\ computes = <<>> /\ callers = <<>>
    /\ upstream = <<>> /\ sw = <<>> /\ mq = <<>>
    /\ lru = Off /\ best = Off
    /\ ad = Off /\ kq = Off
    /\ hd = Off
    /\ proc = "up"

NextCand == Generate

SpecCand == InitCand /\ [][NextCand]_vars

\* one runPool call on every item list and limit within the bounds
InitPool ==
    /\ \E n \in 0..MaxItems, limit \in 1..MaxLimit :
         /\ pool = NewPool([x \in 1..n |-> 100 + x], limit)
         /\ wk = [x \in 1..n |-> IdleWorker]
    /\ cq = NoQuery /\ candidates = <<>> /\ cpc = "off"
    /\ cache = EmptyCaches /\ bag = EmptyCaches /\ computes = <<>> /\ callers = <<>>
    /\ upstream = <<>> /\ sw = <<>> /\ mq = <<>>
    /\ lru = Off /\ best = Off
    /\ ad = Off /\ kq = Off
    /\ hd = Off
    /\ proc = "up"

NextPool ==
    \/ RunPoolCall
    \/ \E idx \in DOMAIN wk : WorkerFulfils(idx)
    \/ \E idx \in DOMAIN wk : WorkerRejects(idx)
    \/ \E idx \in DOMAIN wk : ThenCb(idx)
    \/ \E idx \in DOMAIN wk : FinallyCb(idx)
    \/ ProcessExits

SpecPool == InitPool /\ [][NextPool]_vars

\* concurrent resolve calls on two empty caches
InitCache ==
    /\ cache = EmptyCaches /\ bag = EmptyCaches /\ computes = <<>>
    /\ callers = [c \in 1..NumCalls |-> IdleCaller]
    /\ cq = NoQuery /\ candidates = <<>> /\ cpc = "off"
    /\ pool = NoPool /\ wk = <<>>
    /\ upstream = <<>> /\ sw = <<>> /\ mq = <<>>
    /\ lru = Off /\ best = Off
    /\ ad = Off /\ kq = Off
    /\ hd = Off
    /\ proc = "up"

NextCache ==
    \/ \E c \in DOMAIN callers, inst \in Insts, k \in Keys : Resolve(c, inst, k)
    \/ \E id \in DOMAIN computes : ComputeReturns(id)
    \/ \E id \in DOMAIN computes : ComputeThrows(id)
    \/ \E id \in DOMAIN computes : InflightFinally(id)
    \/ \E c \in DOMAIN callers : Deliver(c)

SpecCache == InitCache /\ [][NextCache]_vars

(***************************************************************************)
(* Properties of the keyed cache + in-flight deduplicator (SpecCache)      *)
(***************************************************************************)

\* C1: for every key and every interleaving of concurrent resolve calls, at
\* most one computation of the key is unsettled at any time, and every call
\* made while a computation of its key was unsettled ends with the outcome
\* of that very computation (the same object, or the same failure).
C1_OneComputePerKey ==
    /\ \A inst \in Insts, k \in Keys : Cardinality(Unsettled(computes, inst, k)) <= 1
    /\ \A c \in DOMAIN callers :
         callers[c].st = "got" =>
            \A id \in callers[c].saw : callers[c].res = computes[id].val

\* two calls of one key overlapped one computation: the first started it, the
\* second missed the cache while it was pending, and both got its value
C1_Witness ==
    \E c1, c2 \in DOMAIN callers :
        /\ c1 # c2
        /\ callers[c1].st = "got" /\ callers[c2].st = "got"
        /\ callers[c1].started /\ ~callers[c2].started /\ ~callers[c2].present
        /\ callers[c2].saw = {callers[c1].wait}
        /\ callers[c1].res = ValueOf(callers[c1].wait)
        /\ callers[c2].res = callers[c1].res

\* C2: a resolve call of a key the cache holds starts no computation, awaits
\* nothing and returns the stored value, whatever else is running.
C2_HitNeverComputes ==
    \A c \in DOMAIN callers :
        callers[c].present =>
            /\ ~callers[c].started
            /\ callers[c].wait = 0
            /\ callers[c].st = "got"
            /\ callers[c].res = callers[c].stored

\* a call hit the cache while another call was still awaiting a computation
C2_Witness ==
    \E c1, c2 \in DOMAIN callers :
        /\ callers[c1].present /\ callers[c1].st = "got" /\ callers[c1].res.t = "val"
        /\ callers[c2].st = "waiting"
        /\ computes[callers[c2].wait].st = "pending"

(***************************************************************************)
(* Properties of the candidate generator (SpecCand)                        *)
(***************************************************************************)

\* C3: for every window >= 0, step >= 1 and mode, the candidate list has at
\* least 1 and at most MAX_PROBES instants.
C3_CandidateCountWithinCap ==
    (cpc = "done" /\ cq.stepMin >= 1) =>
        (Len(candidates) >= 1 /\ Len(candidates) <= MAX_PROBES)

(***************************************************************************)
(* Properties of the bounded-concurrency executor (SpecPool)               *)
(***************************************************************************)
Running == { idx \in DOMAIN wk : wk[idx].st = "running" }

\* C4: in every reachable state of a runPool call, the worker invocations
\* started and not yet settled number at most limit.
C4_ActiveWithinLimit == Cardinality(Running) <= pool.limit

\* the pool is saturated: limit >= 2 workers run while items still wait
C4_Witness ==
    /\ pool.limit >= 2
    /\ Cardinality(Running) = pool.limit
    /\ pool.i < Len(pool.items)

\* C5: for a non-empty item list and limit >= 1, the worker is invoked at
\* most once per index at any time, and when the pool returns it has been
\* invoked exactly once for every index and every invocation has settled
\* and been reacted to.
C5_EachItemExactlyOnce ==
    /\ \A idx \in DOMAIN wk : wk[idx].n <= 1
    /\ pool.returned =>
          \A idx \in DOMAIN wk : wk[idx].n = 1 /\ wk[idx].st \in {"done", "doneFailed"}

\* the pool returned after working through more items than its limit
C5_Witness ==
    /\ pool.returned
    /\ Len(pool.items) > pool.limit
    /\ \A idx \in DOMAIN wk : wk[idx].n = 1

\* C6: a rejected worker invocation does not stop the pool: while the pool
\* has not returned the process is running and some invocation or reaction
\* is still outstanding, and when it returns every item has been invoked
\* once, the slots of the fulfilled items hold their values and only the
\* slots of the rejected items are empty.
C6_FailureIsolated ==
    /\ (pool.called /\ ~pool.returned /\ Len(pool.items) > 0) =>
          /\ proc # "exited"
          /\ \E idx \in DOMAIN wk :
                wk[idx].st \in {"running", "fulfilled", "rejected", "then", "thenFailed"}
    /\ pool.returned =>
          \A idx \in DOMAIN wk :
              /\ wk[idx].n = 1
              /\ wk[idx].st = "doneFailed" => pool.out[idx] = Hole
              /\ wk[idx].st = "done" => pool.out[idx] = wk[idx].v

\* a pool that returns after a rejection has its slots as C6 states; the
\* process then ends
ReturnedPoolIsolatesFailure ==
    pool.returned =>
        /\ \A idx \in DOMAIN wk :
              /\ wk[idx].n = 1
              /\ wk[idx].st = "doneFailed" => pool.out[idx] = Hole
              /\ wk[idx].st = "done" => pool.out[idx] = wk[idx].v
        /\ (\E idx \in DOMAIN wk : wk[idx].st = "doneFailed") => proc # "up"

\* C7: the array runPool returns has the length of items and, for every
\* index whose worker fulfilled, slot i holds the value of worker(items[i]),
\* for every order in which the invocations complete.
C7_OrderPreserved ==
    pool.returned =>
        /\ DOMAIN pool.out = 1..Len(pool.items)
        /\ \A idx \in DOMAIN wk :
              wk[idx].st = "done" => pool.out[idx] = wk[idx].v

\* two items with different results completed in the reverse of input order
C7_Witness ==
    /\ pool.returned
    /\ \E a, b \in DOMAIN wk :
          /\ a < b
          /\ wk[a].st = "done" /\ wk[b].st = "done"
          /\ wk[a].at > wk[b].at
          /\ wk[a].v # wk[b].v

(***************************************************************************)
(* Route provider adapter: hereTransitOnce, lines 484-562                  *)
(*                                                                         *)
(* What the upstream answers to one call is one of                         *)
(*   [kind |-> "throw"]                 fetch rejects (network failure)    *)
(*   [kind |-> "http", code |-> c]      a non-success HTTP status          *)
(*   [kind |-> "json", sections |-> q]  a body; q are the sections of      *)
(*                                      routes[0] (<<>>: no usable route)  *)
(* A section carries the fields the adapter reads:                         *)
(*   transport   s.transport is present                                    *)
(*   category, mode, product   s.transport.category / .mode /              *)
(*               .product.name; "" stands for an absent field              *)
(*   hasDuration, duration     s.summary.duration, when it is a number     *)
(*   dep, arr    what lines 519-520 and 536-537 compute from               *)
(*               s.departure.time / s.arrival.time: Null for an absent     *)
(*               time, NaN for a string Date.parse cannot read, Num(ms)    *)
(*               for a time, in milliseconds                               *)
(* The names copied into a leg (line, agency, from, to) are left out.      *)
(***************************************************************************)
\* JavaScript values: null, NaN, a number
Null == [t |-> "null"]
NaN == [t |-> "NaN"]
Num(n) == [t |-> "num", v |-> n]

\* null, NaN and 0 are falsy
TruthyTime(x) == x.t = "num" /\ x.v # 0

\* lines 239-244
NON_D_TICKET_PRODUCTS ==
    {"highSpeedTrain", "intercityTrain", "longDistanceTrain", "internationalTrain"}

\* String.prototype.trim on the strings of the model
Trim(str) == IF str = " intercityTrain " THEN "intercityTrain" ELSE str

\* a || b on strings: "" is falsy
OrStr(a, b) == IF a = "" THEN b ELSE a

\* line 508
SectionProd(sec) ==
    IF sec.transport THEN OrStr(sec.product, OrStr(sec.mode, sec.category)) ELSE ""
\* line 509
SectionCat(sec) ==
    IF sec.transport THEN Trim(OrStr(sec.category, sec.mode)) ELSE ""

\* line 510, without the flag
SectionExcludedMutCatOnly(sec) == SectionCat(sec) \in NON_D_TICKET_PRODUCTS

SectionExcluded(sec) ==
    SectionCat(sec) \in NON_D_TICKET_PRODUCTS \/ SectionProd(sec) \in NON_D_TICKET_PRODUCTS

\* lines 502, 510-512, 529: dticket && violatesDTicket
ViolatesDTicketMutNever(sections, dticket) == FALSE
ViolatesDTicket(sections, dticket) ==
    dticket /\ \E x \in DOMAIN sections : SectionExcluded(sections[x])

\* lines 503, 514-515: the sum of the sections' summary durations
RECURSIVE SumDurations(_)
SumDurations(sections) ==
    IF sections = <<>> THEN 0
    ELSE (IF Head(sections).hasDuration THEN Head(sections).duration ELSE 0)
         + SumDurations(Tail(sections))

\* lines 504, 521: the earliest truthy departure (0: none)
RECURSIVE FirstDep(_, _)
FirstDep(sections, acc) ==
    IF sections = <<>> THEN acc
    ELSE LET dep == Head(sections).dep
         IN  FirstDep(Tail(sections),
                      IF TruthyTime(dep) /\ (acc = 0 \/ dep.v < acc) THEN dep.v ELSE acc)

\* lines 505, 522: the latest truthy arrival (0: none)
RECURSIVE LastArr(_, _)
LastArr(sections, acc) ==
    IF sections = <<>> THEN acc
    ELSE LET arr == Head(sections).arr
         IN  LastArr(Tail(sections),
                     IF TruthyTime(arr) /\ (acc = 0 \/ arr.v > acc) THEN arr.v ELSE acc)

\* Math.round(x / 1000)
RoundMs(x) == (x + 500) \div 1000

\* lines 525-527, 557
DurationSec(sections) ==
    LET sum == SumDurations(sections)
        fd  == FirstDep(sections, 0)
        la  == LastArr(sections, 0)
    IN  IF sum <= 0 /\ fd # 0 /\ la # 0 /\ la > fd THEN RoundMs(la - fd) ELSE sum

\* lines 533-553: one leg of details. A TRANSIT leg has the times and the
\* product, a WALK leg the duration only (distance_m is left out).
\* Lines 536-537: iso ? Math.floor(Date.parse(iso)/1000) : null; the floor
\* of NaN is NaN
Leg(sec) ==
    LET FloorSec(time) == IF time.t = "num" THEN Num(time.v \div 1000) ELSE time
        dep == FloorSec(sec.dep)
        arr == FloorSec(sec.arr)
    IN  IF sec.transport
        THEN [type |-> "TRANSIT", dep |-> dep, arr |-> arr,
              product |-> OrStr(sec.category, sec.mode)]
        ELSE [type |-> "WALK",
              duration_sec |->
                  IF sec.hasDuration /\ sec.duration # 0 THEN Num(sec.duration)
                  ELSE IF TruthyTime(dep) /\ TruthyTime(arr)
                       THEN Num(Max(0, RoundMs(arr.v - dep.v)))
                  ELSE Null]

Details(sections) == [x \in DOMAIN sections |-> Leg(sections[x])]

\* the outcome objects of lines 496, 500, 530; they have no durationSec,
\* depart, arrive or details
Failure(status, code) ==
    [t |-> "res", ok |-> FALSE, status |-> status, code |-> code,
     durationSec |-> 0, depart |-> Undefined, arrive |-> Undefined, details |-> <<>>]

\* lines 496-561: what hereTransitOnce returns for an upstream answer that
\* is not a network failure
HereTransitOnce(resp, dticket) ==
    IF resp.kind = "http" THEN Failure("HTTP_ERROR", resp.code)
    ELSE IF Len(resp.sections) = 0 THEN Failure("ZERO_RESULTS", 0)
    ELSE IF ViolatesDTicket(resp.sections, dticket) THEN Failure("REJECTED_D_TICKET", 0)
    ELSE LET fd == FirstDep(resp.sections, 0)
             la == LastArr(resp.sections, 0)
         IN  [t |-> "res", ok |-> TRUE, status |-> "OK", code |-> 0,
              durationSec |-> DurationSec(resp.sections),
              depart |-> IF fd # 0 THEN Num(fd \div 1000) ELSE Null,
              arrive |-> IF la # 0 THEN Num(la \div 1000) ELSE Null,
              details |-> Details(resp.sections)]

\* the number of binary digits of q >= 0
RECURSIVE BitLength(_)
BitLength(q) == IF q = 0 THEN 0 ELSE 1 + BitLength(q \div 2)

\* long division of r / 1000000 in binary, until `need` more significant
\* digits are out: what is left of r and the last digit. Digit by digit up
\* to the first 1, then up to eight digits at a time
RECURSIVE BinaryDigits(_, _, _, _)
BinaryDigits(r, need, started, last) ==
    IF need = 0 THEN [r |-> r, last |-> last]
    ELSE LET k == IF started THEN Min(8, need) ELSE 1
             digits == (r * 2^k) \div 1000000
             rest == (r * 2^k) % 1000000
         IN  IF started \/ digits = 1
             THEN BinaryDigits(rest, need - k, TRUE, digits % 2)
             ELSE BinaryDigits(rest, need, FALSE, 0)

\* a coordinate of x millionths of a degree (x > 0) is the double nearest
\* to x / 1000000, a number of 53 binary digits rounded half to even:
\* whether that double lies below x / 1000000
DoubleBelow(x) ==
    LET q == x \div 1000000
        d == BinaryDigits(x % 1000000, 53 - BitLength(q), q > 0, q % 2)
    IN  \/ 2 * d.r < 1000000 /\ d.r > 0
        \/ 2 * d.r = 1000000 /\ d.last = 0

\* toFixed(5) of a coordinate held in millionths of a degree (>= 0), as the
\* number of hundred-thousandths it prints: toFixed rounds the double, so
\* a sixth decimal of 5 goes down when the double lies below the numeral
ToFixed5(x) ==
    IF x % 10 = 5 /\ DoubleBelow(x) THEN x \div 10 ELSE (x + 5) \div 10

\* line 566: the cache key
TransitKeyMutNoFlag(args) ==
    <<ToFixed5(args.origin.lat), ToFixed5(args.origin.lng),
      ToFixed5(args.destination.lat), ToFixed5(args.destination.lng),
      args.mode, args.ts, "0">>
TransitKey(args) ==
    <<ToFixed5(args.origin.lat), ToFixed5(args.origin.lng),
      ToFixed5(args.destination.lat), ToFixed5(args.destination.lng),
      args.mode, args.ts, IF args.dticket THEN "1" ELSE "0">>

(***************************************************************************)
(* Sweep orchestrator: sweepTransit, lines 576-601, on TRN_CACHE           *)
(*                                                                         *)
(* The event loop is modelled as it runs: a turn starts with a macrotask   *)
(* (a call of sweepTransit by a request handler, or the arrival of an      *)
(* upstream answer) and then runs the promise reactions it queued, first   *)
(* in first out, until the microtask queue is empty; only then the next    *)
(* macrotask starts. A sweep is a record: its arguments, the closure of    *)
(* its runPool call, its worker invocations, its trace and its result.     *)
(***************************************************************************)
TRN_CACHE_MAX == 4000
POOL_LIMIT == 4


MaxSweepWindow == 1   \* sweeps over windows 0..MaxSweepWindow minutes, step 1

\* an earlier and a later call of sweepTransit
Sweeps == {1, 2}

Origin      == [lat |-> 49452030, lng |-> 11076750]
Destination == [lat |-> 48137154, lng |-> 11576124]

\* a transit section and a pedestrian section with a summary duration
TransitSec(category, mode, product, duration) ==
    [transport |-> TRUE, category |-> category, mode |-> mode, product |-> product,
     hasDuration |-> TRUE, duration |-> duration, dep |-> Null, arr |-> Null]
WalkSec(duration) ==
    [transport |-> FALSE, category |-> "", mode |-> "", product |-> "",
     hasDuration |-> TRUE, duration |-> duration, dep |-> Null, arr |-> Null]

\* the upstream answers of the model
Responses ==
    { [kind |-> "throw"],
      [kind |-> "http", code |-> 500],
      [kind |-> "json", sections |-> <<>>],
      \* 300 s, one transfer
      [kind |-> "json", sections |->
          << TransitSec("Regional Train", "regionalTrain", "", 150),
             TransitSec("Bus", "bus", "", 150) >>],
      \* 200 s, two transfers
      [kind |-> "json", sections |->
          << TransitSec("Regional Train", "regionalTrain", "", 60),
             TransitSec("Bus", "bus", "", 60),
             TransitSec("Regional Train", "regionalTrain", "", 80) >>],
      \* 200 s, one transfer, 20 s on foot
      [kind |-> "json", sections |->
          << TransitSec("Regional Train", "regionalTrain", "", 100),
             WalkSec(20),
             TransitSec("Bus", "bus", "", 80) >>],
      \* 100 s, a category of the excluded set
      [kind |-> "json", sections |->
          << TransitSec("highSpeedTrain", "", "", 100) >>] }

\* the arguments the worker of line 590 hands to hereTransitOnceCached
ProbeArgs(S, ts) ==
    [inst |-> "TRN", origin |-> Origin, destination |-> Destination,
     ts |-> ts, mode |-> S.mode, dticket |-> S.dticket]

IdleSweep ==
    [st |-> "idle", mode |-> "depart", dticket |-> FALSE, debug |-> FALSE,
     pool |-> NoPool, w |-> <<>>, trace |-> <<>>, result |-> Undefined]

Microtask(k, s, idx, id, val) == [k |-> k, s |-> s, idx |-> idx, id |-> id, val |-> val]

\* line 590 inside line 228: the worker of index idx of sweep s is called and
\* runs hereTransitOnceCached up to its first await: a hit queues its own
\* resumption, a miss leaves it awaiting the promise of the computation.
\* E is the shared state the call reads and writes.
StartProbe(E, S, s, idx) ==
    LET args == ProbeArgs(S, S.pool.items[idx])
        key  == TransitKey(args)
        kind == ResolveKind(E.cache, E.bag, key)
    IN  [cache    |-> LruGetMap(E.cache, key),
         bag      |-> ResolveBag(E.cache, E.bag, E.computes, key),
         computes |-> ResolveComputes(E.cache, E.bag, E.computes, key, args, <<s, idx>>),
         mq       |-> IF kind = "hit"
                      THEN Append(E.mq, Microtask("resume", s, idx, 0,
                                                  LruGetValue(E.cache, key)))
                      ELSE E.mq]

\* the while loop of line 226 calling the worker for every index of `started`
RECURSIVE StartProbes(_, _, _, _)
StartProbes(E, S, s, started) ==
    IF started = <<>> THEN E
    ELSE CHOOSE r \in { StartProbes(e, S, s, Tail(started)) :
                          e \in {StartProbe(E, S, s, Head(started))} } : TRUE

Env == [cache |-> cache["TRN"], bag |-> bag["TRN"], computes |-> computes, mq |-> mq]

\* the shared state after a job, taken from E
SetEnv(E) ==
    /\ cache' = [cache EXCEPT !["TRN"] = E.cache]
    /\ bag' = [bag EXCEPT !["TRN"] = E.bag]
    /\ computes' = E.computes
    /\ mq' = E.mq

\* macrotask: a request handler calls sweepTransit (lines 576-596): the
\* candidates are built, runPool is called and next() starts the first workers.
SweepCall(s, dticket, debug) ==
    LET items == Candidates(cq.baseTs, cq.mode, cq.windowMin, cq.stepMin)
        P0 == [NewPool(items, POOL_LIMIT) EXCEPT !.called = TRUE]
        S0 == [st |-> "running", mode |-> cq.mode, dticket |-> dticket, debug |-> debug,
               pool |-> PoolNext(P0),
               w |-> StartWorkers([x \in 1..Len(items) |-> IdleWorker], PoolStarts(P0)),
               trace |-> <<>>, result |-> Undefined]
    IN  /\ proc = "up"
        /\ mq = <<>>
        /\ sw[s].st = "idle"
        /\ \E S \in {S0} : \E E \in {StartProbes(Env, S, s, PoolStarts(P0))} :
              /\ sw' = [sw EXCEPT ![s] = S]
              /\ SetEnv(E)
        /\ UNCHANGED <<lruVars, entryVars, candVars, adapterVars, itinVars, procVars, poolVars, callers, upstream>>

\* the later call is made once the earlier one has returned
StartSweep(s, dticket, debug) ==
    /\ IF s = 1 THEN TRUE ELSE sw[s - 1].st = "done"
    /\ SweepCall(s, dticket, debug)

\* macrotask: the upstream answer of computation id arrives (lines 495-498):
\* fetch rejects and the maker throws, or hereTransitOnce returns its outcome
UpstreamAnswers(id) ==
    LET resp == upstream[computes[id].args.ts]
    IN  /\ proc = "up"
        /\ mq = <<>>
        /\ computes[id].st = "pending"
        /\ IF resp.kind = "throw"
           THEN /\ computes' = ComputeThrew(computes, id)
                /\ mq' = <<Microtask("finally", 0, 0, id, Thrown)>>
           ELSE /\ computes' = computes
                /\ mq' = <<Microtask("store", 0, 0, id,
                                     HereTransitOnce(resp, computes[id].args.dticket))>>
        /\ UNCHANGED <<lruVars, entryVars, cache, bag, callers, candVars, adapterVars, itinVars, procVars, poolVars, upstream, sw>>

\* microtask: the maker resumes with the outcome, stores it and returns (lines 570-572)
MtStore ==
    /\ mq # <<>> /\ Head(mq).k = "store"
    /\ LET t == Head(mq)
       IN  /\ cache' = [cache EXCEPT !["TRN"] =
                           lruSet(@, computes[t.id].key, t.val, TRN_CACHE_MAX)]
           /\ computes' = [ComputeStored(computes, t.id, t.val) EXCEPT ![t.id].evicts =
                               LruSetEvicts(cache["TRN"], computes[t.id].key, t.val,
                                            TRN_CACHE_MAX)]
           /\ mq' = Append(Tail(mq), Microtask("finally", 0, 0, t.id, t.val))
    /\ UNCHANGED <<lruVars, entryVars, bag, callers, candVars, adapterVars, itinVars, procVars, poolVars, upstream, sw>>

\* the resumptions of the waiters of a settled promise, in the order they came
Resumptions(waiters, val) ==
    [x \in DOMAIN waiters |-> Microtask("resume", waiters[x][1], waiters[x][2], 0, val)]

\* microtask: the finally block of line 476 runs and the promise settles
MtFinally ==
    /\ mq # <<>> /\ Head(mq).k = "finally"
    /\ LET t == Head(mq)
       IN  /\ bag' = [bag EXCEPT !["TRN"] = FinallyBag(@, computes, t.id)]
           /\ computes' = FinallySettled(computes, t.id)
           /\ mq' = Tail(mq) \o Resumptions(computes[t.id].waiters, computes[t.id].val)
    /\ UNCHANGED <<lruVars, entryVars, cache, callers, candVars, adapterVars, itinVars, procVars, poolVars, upstream, sw>>

\* line 591: the trace entry of a probe outcome
TraceEntry(r, ts, mode) ==
    [ts |-> ts, status |-> IF r.ok THEN "OK" ELSE r.status, code |-> r.code, mode |-> mode]

\* line 592: r.ok ? { ...r, ts } : null
ProbeResult(r, ts) ==
    IF r.ok THEN [t |-> "route", ts |-> ts, durationSec |-> r.durationSec,
                  depart |-> r.depart, arrive |-> r.arrive, details |-> r.details]
    ELSE Null

\* microtask: a worker resumes after `await hereTransitOnceCached` (lines
\* 590-592) with the outcome val, or with the failure of the promise
MtResume ==
    /\ mq # <<>> /\ Head(mq).k = "resume"
    /\ LET t  == Head(mq)
           S  == sw[t.s]
           ts == S.pool.items[t.idx]
       IN  /\ sw' = [sw EXCEPT ![t.s] =
                  IF t.val = Thrown
                  THEN [S EXCEPT !.w[t.idx].st = "rejected"]
                  ELSE [S EXCEPT !.w[t.idx].st = "fulfilled",
                                 !.w[t.idx].v = ProbeResult(t.val, ts),
                                 !.trace = IF S.debug
                                           THEN Append(@, TraceEntry(t.val, ts, S.mode))
                                           ELSE @]]
           /\ mq' = Append(Tail(mq), Microtask("then", t.s, t.idx, 0, Undefined))
    /\ UNCHANGED <<lruVars, entryVars, cache, bag, computes, callers, candVars, adapterVars, itinVars, procVars, poolVars, upstream>>

\* microtask: the then reaction of line 229
MtThen ==
    /\ mq # <<>> /\ Head(mq).k = "then"
    /\ LET t == Head(mq)
           S == sw[t.s]
       IN  /\ sw' = [sw EXCEPT ![t.s] =
                  [S EXCEPT !.pool = PoolThen(S.pool, t.idx, S.w[t.idx]),
                            !.w[t.idx].st = IF S.w[t.idx].st = "fulfilled"
                                            THEN "then" ELSE "thenFailed"]]
           /\ mq' = Append(Tail(mq), Microtask("fin", t.s, t.idx, 0, Undefined))
    /\ UNCHANGED <<lruVars, entryVars, cache, bag, computes, callers, candVars, adapterVars, itinVars, procVars, poolVars, upstream>>

\* microtask: the finally reaction of line 230: the item is counted, and
\* either the pool resolves or next() starts further workers
MtFin ==
    /\ mq # <<>> /\ Head(mq).k = "fin"
    /\ LET t  == Head(mq)
           S  == sw[t.s]
           P  == PoolFinally(S.pool)
           started == PoolFinallyStarts(S.pool)
           S1 == [S EXCEPT !.pool = P,
                           !.w = StartWorkers(
                                   [S.w EXCEPT ![t.idx].st =
                                       IF S.w[t.idx].st = "then" THEN "done" ELSE "doneFailed"],
                                   started)]
           E0 == [Env EXCEPT !.mq = Tail(mq)]
       IN  \E S2 \in {S1} : \E E1 \in {StartProbes(E0, S2, t.s, started)} :
              /\ sw' = [sw EXCEPT ![t.s] = S2]
              /\ SetEnv(IF P.returned /\ ~S.pool.returned
                        THEN [E1 EXCEPT !.mq = Append(@, Microtask("end", t.s, 0, 0,
                                                                  Undefined))]
                        ELSE E1)
              /\ proc' = AfterFinally(proc, S.w[t.idx].st = "thenFailed")
    /\ UNCHANGED <<lruVars, entryVars, callers, candVars, adapterVars, itinVars, poolVars, upstream>>

\* Array.prototype.filter(Boolean) on the array runPool returned: a hole is
\* skipped and null is falsy
RECURSIVE FilterBoolean(_, _)
FilterBoolean(out, x) ==
    IF x > Len(out) THEN <<>>
    ELSE IF out[x] = Hole \/ out[x] = Null THEN FilterBoolean(out, x + 1)
    ELSE <<out[x]>> \o FilterBoolean(out, x + 1)

\* line 599: a.durationSec || 9e15 (the constant is scaled to the integers of the checker)
UnknownDurationKey == 2000000000
SortKeyMutRaw(a) == a.durationSec
SortKey(a) == IF a.durationSec = 0 THEN UnknownDurationKey ELSE a.durationSec

\* the comparator of line 599
CompareMutReversed(a, b) == SortKey(b) - SortKey(a)
Compare(a, b) == SortKey(a) - SortKey(b)

\* Array.prototype.sort is stable: x goes behind every element it does not
\* compare below
RECURSIVE InsertSorted(_, _)
InsertSorted(sorted, x) ==
    IF sorted = <<>> THEN <<x>>
    ELSE IF Compare(x, Head(sorted)) < 0 THEN <<x>> \o sorted
    ELSE <<Head(sorted)>> \o InsertSorted(Tail(sorted), x)

RECURSIVE SortResults(_)
SortResults(rs) ==
    IF rs = <<>> THEN <<>>
    ELSE InsertSorted(SortResults(SubSeq(rs, 1, Len(rs) - 1)), rs[Len(rs)])

\* lines 596-600: what sweepTransit returns from the array of runPool
SweepResult(out) ==
    LET results == FilterBoolean(out, 1)
    IN  IF Len(results) = 0
        THEN [ok |-> FALSE, status |-> "ZERO_RESULTS", best |-> Null]
        ELSE [ok |-> TRUE, status |-> "OK", best |-> SortResults(results)[1]]

\* microtask: sweepTransit resumes after `await runPool` and returns (lines 596-600)
MtEnd ==
    /\ mq # <<>> /\ Head(mq).k = "end"
    /\ LET t == Head(mq)
           S == sw[t.s]
       IN  sw' = [sw EXCEPT ![t.s] = [S EXCEPT !.st = "done",
                                               !.result = SweepResult(S.pool.out)]]
    /\ mq' = Tail(mq)
    /\ UNCHANGED <<lruVars, entryVars, cache, bag, computes, callers, candVars, adapterVars, itinVars, procVars, poolVars, upstream>>

\* the query of the requests: both sweeps are made with the same window,
\* step, mode and debug flag, and each with its own dticket flag
SweepQueries ==
    [windowMin : 0..MaxSweepWindow, stepMin : {1}, mode : Modes, baseTs : {BaseTs},
     debug : BOOLEAN]

\* sweeps of one query against a provider whose answer per instant is fixed
InitSweep ==
    /\ cq \in SweepQueries
    /\ upstream \in [Range(Candidates(cq.baseTs, cq.mode, cq.windowMin, cq.stepMin))
                        -> Responses]
    /\ sw = [s \in Sweeps |-> IdleSweep]
    /\ mq = <<>>
    /\ cache = EmptyCaches /\ bag = EmptyCaches /\ computes = <<>> /\ callers = <<>>
    /\ candidates = <<>> /\ cpc = "off"
    /\ pool = NoPool /\ wk = <<>>
    /\ lru = Off /\ best = Off
    /\ ad = Off /\ kq = Off
    /\ hd = Off
    /\ proc = "up"

NextSweep ==
    \/ \E s \in DOMAIN sw, dticket \in BOOLEAN : StartSweep(s, dticket, cq.debug)
    \/ \E id \in DOMAIN computes : UpstreamAnswers(id)
    \/ MtStore
    \/ MtFinally
    \/ MtResume
    \/ MtThen
    \/ MtFin
    \/ MtEnd
    \/ ProcessExits

SpecSweep == InitSweep /\ [][NextSweep]_vars

(***************************************************************************)
(* Properties of the sweep orchestrator (SpecSweep)                        *)
(***************************************************************************)

\* what the worker of a sweep returns for instant ts, from the provider's
\* answer alone: nothing when the request throws, null for an outcome that
\* is not ok, the route with its instant otherwise
Outcome(ts, dticket) ==
    IF upstream[ts].kind = "throw" THEN Hole
    ELSE ProbeResult(HereTransitOnce(upstream[ts], dticket), ts)

\* the outcomes of the candidates of sweep S, by candidate index
Outcomes(S) == [x \in DOMAIN S.pool.items |-> Outcome(S.pool.items[x], S.dticket)]

\* the candidate indexes whose outcome is an accepted route
Accepted(outs) == { x \in DOMAIN outs : outs[x].t = "route" }

\* C8: for a fixed provider answer per candidate instant, the best route a
\* sweep returns depends on those answers alone, not on the order in which
\* its probes complete: it is the route of the earliest candidate among the
\* accepted routes of least sort key, and there is none exactly when no
\* candidate is accepted.
C8_BestIndependentOfCompletionOrder ==
    \A s \in DOMAIN sw :
        sw[s].st = "done" =>
            LET outs == Outcomes(sw[s])
                acc  == Accepted(outs)
            IN  IF acc = {}
                THEN ~sw[s].result.ok
                ELSE /\ sw[s].result.ok
                     /\ \E x \in acc :
                           /\ sw[s].result.best = outs[x]
                           /\ \A y \in acc :
                                 \/ SortKey(outs[x]) < SortKey(outs[y])
                                 \/ /\ SortKey(outs[x]) = SortKey(outs[y])
                                    /\ x <= y

\* two accepted candidates tie on duration, the later one completed first,
\* and the sweep has returned
C8_Witness ==
    \E s \in DOMAIN sw :
        /\ sw[s].st = "done" /\ sw[s].debug /\ sw[s].result.ok
        /\ Len(sw[s].trace) = 2
        /\ sw[s].trace[1].ts > sw[s].trace[2].ts
        /\ sw[s].trace[1].status = "OK" /\ sw[s].trace[2].status = "OK"
        /\ sw[s].pool.out[1].durationSec = sw[s].pool.out[2].durationSec
        /\ sw[s].pool.out[1] # sw[s].pool.out[2]

\* the legs of a route whose product category is in the excluded set
ExcludedLegs(route) ==
    { x \in DOMAIN route.details :
        /\ route.details[x].type = "TRANSIT"
        /\ route.details[x].product \in NON_D_TICKET_PRODUCTS }

\* C9: with the dticket flag set, the best route a sweep returns has no leg
\* whose product category is in NON_D_TICKET_PRODUCTS, even when a route with
\* such a leg is the shortest and even when the same instants were probed
\* and cached before by a sweep without the flag.
C9_NoExcludedLegWhenFlagSet ==
    \A s \in DOMAIN sw :
        (sw[s].st = "done" /\ sw[s].dticket /\ sw[s].result.ok) =>
            ExcludedLegs(sw[s].result.best) = {}

\* the earlier sweep ran without the flag and returned a route with an
\* excluded leg; the later sweep ran with the flag over the same instants
\* and returned another, longer route
C9_Witness ==
    /\ sw[1].st = "done" /\ ~sw[1].dticket /\ sw[1].result.ok
    /\ ExcludedLegs(sw[1].result.best) # {}
    /\ sw[2].st = "done" /\ sw[2].dticket /\ sw[2].result.ok
    /\ sw[2].result.best.durationSec > sw[1].result.best.durationSec
    /\ MapHas(cache["TRN"],
              TransitKey(ProbeArgs(sw[1], sw[1].result.best.ts)))

\* the transfer count and the walking time of a route, read off its legs
\* (the count of transit legs less one; the seconds of the walking legs)
TransferCount(route) ==
    Cardinality({ x \in DOMAIN route.details : route.details[x].type = "TRANSIT" }) - 1

RECURSIVE WalkSecondsOf(_)
WalkSecondsOf(legs) ==
    IF legs = <<>> THEN 0
    ELSE (IF Head(legs).type = "WALK" /\ Head(legs).duration_sec.t = "num"
                                      /\ Head(legs).duration_sec.v > 0
          THEN Head(legs).duration_sec.v ELSE 0) + WalkSecondsOf(Tail(legs))

WalkSeconds(route) == WalkSecondsOf(route.details)

\* a is not behind b in the order: duration, then transfers, then walking time
LexLeq(a, b) ==
    \/ a.durationSec < b.durationSec
    \/ /\ a.durationSec = b.durationSec
       /\ \/ TransferCount(a) < TransferCount(b)
          \/ /\ TransferCount(a) = TransferCount(b)
             /\ WalkSeconds(a) <= WalkSeconds(b)

\* C10: the best route of a sweep is minimal among its accepted routes under
\* the order: ascending duration, ties by ascending transfer count, further
\* ties by ascending walking time.
C10_BestIsLexMinimal ==
    \A s \in DOMAIN sw :
        (sw[s].st = "done" /\ sw[s].result.ok) =>
            LET outs == Outcomes(sw[s])
            IN  \A x \in Accepted(outs) : LexLeq(sw[s].result.best, outs[x])

\* C11: when every accepted candidate route of a sweep has a positive
\* duration, the best route returned has the least duration among them.
C11_BestHasMinimumDuration ==
    \A s \in DOMAIN sw :
        (sw[s].st = "done" /\ sw[s].result.ok) =>
            LET outs == Outcomes(sw[s])
                acc  == Accepted(outs)
            IN  (\A x \in acc : outs[x].durationSec > 0) =>
                    \A x \in acc : sw[s].result.best.durationSec <= outs[x].durationSec

\* a sweep has returned whose accepted routes differ in duration and whose
\* first candidate is not the shortest
C11_Witness ==
    \E s \in DOMAIN sw :
        /\ sw[s].st = "done" /\ sw[s].result.ok
        /\ Cardinality(Accepted(Outcomes(sw[s]))) >= 2
        /\ 1 \in Accepted(Outcomes(sw[s]))
        /\ Outcomes(sw[s])[1].durationSec > sw[s].result.best.durationSec
        /\ sw[s].result.best.durationSec > 0

(***************************************************************************)
(* Unified sweep of the Google proxy: sweepBest, src/server.js 204-257,    *)
(* with geocodeToPlaceId (53-65) and googleTransitOnce (67-110).           *)
(*                                                                         *)
(* One call with a provider other than 'db' (the DB provider is refused by *)
(* the handlers unless ENABLE_DB is set, lines 275-277). sweepBest awaits  *)
(* its requests one at a time, so its state is the position of the await   *)
(* it is suspended at; every action is the job that resumes it.            *)
(***************************************************************************)
MaxBestWindow == 2   \* sweepBest over windows 0..MaxBestWindow minutes
MaxBestStep   == 2   \* and steps 1..MaxBestStep minutes

Pending == [t |-> "pending"]

\* what the geocoding service can answer: the request fails at network
\* level, a body without results, a body with a result
GeoResponses ==
    { [kind |-> "throw"],
      [kind |-> "json", status |-> "ZERO_RESULTS", results |-> 0],
      [kind |-> "json", status |-> "OK", results |-> 1] }

\* lines 59-64
GeocodeToPlaceId(resp) ==
    IF resp.status # "OK" \/ resp.results = 0
    THEN [ok |-> FALSE, status |-> resp.status]
    ELSE [ok |-> TRUE, status |-> "OK"]

\* a step of a Google leg
TransitStep == [travel_mode |-> "TRANSIT", duration |-> 0]
WalkStep(sec) == [travel_mode |-> "WALKING", duration |-> sec]

\* what the directions service can answer: the request fails at network
\* level, a non-success status, a body without a leg, a leg, a leg without
\* duration.value
GoogleResponses ==
    { [kind |-> "throw"],
      [kind |-> "http", code |-> 500],
      [kind |-> "json", hasLeg |-> FALSE, hasDuration |-> FALSE, duration |-> 0,
       steps |-> <<>>],
      [kind |-> "json", hasLeg |-> TRUE, hasDuration |-> TRUE, duration |-> 300,
       steps |-> <<TransitStep>>],
      [kind |-> "json", hasLeg |-> TRUE, hasDuration |-> TRUE, duration |-> 200,
       steps |-> <<TransitStep, TransitStep, TransitStep>>],
      [kind |-> "json", hasLeg |-> TRUE, hasDuration |-> TRUE, duration |-> 200,
       steps |-> <<TransitStep, WalkStep(120), TransitStep>>],
      [kind |-> "json", hasLeg |-> TRUE, hasDuration |-> FALSE, duration |-> 0,
       steps |-> <<TransitStep>>] }

\* lines 39-48 for the argument of line 85: null for a missing value, the
\* number itself otherwise
ParseDurationSec(resp) ==
    IF resp.hasDuration THEN [null |-> FALSE, value |-> resp.duration]
    ELSE [null |-> TRUE, value |-> 0]

\* line 86: the TRANSIT steps, less one
GoogleTransfers(steps) ==
    Cardinality({ x \in DOMAIN steps : steps[x].travel_mode = "TRANSIT" }) - 1

\* lines 87-91: the minutes of the WALKING steps, rounded
RECURSIVE GoogleWalkSec(_)
GoogleWalkSec(steps) ==
    IF steps = <<>> THEN 0
    ELSE (IF Head(steps).travel_mode = "WALKING" THEN Head(steps).duration ELSE 0)
         + GoogleWalkSec(Tail(steps))

GoogleWalkMin(steps) == (GoogleWalkSec(steps) + 30) \div 60

\* lines 80-109: the outcome of googleTransitOnce for an answer that arrived
GoogleTransitOnce(resp) ==
    IF resp.kind = "http"
    THEN [status |-> "HTTP_ERROR", code |-> resp.code,
          duration |-> [null |-> TRUE, value |-> 0],
          transfers |-> 0, walk |-> 0]
    ELSE IF ~resp.hasLeg
    THEN [status |-> "ZERO_RESULTS", code |-> 0,
          duration |-> [null |-> TRUE, value |-> 0],
          transfers |-> 0, walk |-> 0]
    ELSE [status |-> "OK", code |-> 0, duration |-> ParseDurationSec(resp),
          transfers |-> GoogleTransfers(resp.steps),
          walk |-> GoogleWalkMin(resp.steps)]

\* lines 218-221: the candidate instants, the step taken as given
BestCandidates(baseTs, mode, windowMin, stepMin) ==
    CandLoop(StartOff(mode, windowMin), EndOff(mode, windowMin), stepMin, baseTs)

\* line 247
OppositeMutSame(mode) == mode
Opposite(mode) == IF mode = "arrive" THEN "depart" ELSE "arrive"

\* a duration as an operand of `-` (line 231): null converts to 0
ToNumber(d) == IF d.null THEN 0 ELSE d.value

\* lines 230-234: the comparator
BetterMutDurationOnly(a, b) == ToNumber(a.duration) - ToNumber(b.duration)
Better(a, b) ==
    IF ToNumber(a.duration) - ToNumber(b.duration) # 0
    THEN ToNumber(a.duration) - ToNumber(b.duration)
    ELSE IF a.transfers - b.transfers # 0 THEN a.transfers - b.transfers
    ELSE a.walk - b.walk

\* lines 242, 255: results.sort(better), a stable sort
RECURSIVE BestInsert(_, _)
BestInsert(sorted, x) ==
    IF sorted = <<>> THEN <<x>>
    ELSE IF Better(x, Head(sorted)) < 0 THEN <<x>> \o sorted
    ELSE <<Head(sorted)>> \o BestInsert(Tail(sorted), x)

RECURSIVE BestSort(_)
BestSort(rs) ==
    IF rs = <<>> THEN <<>>
    ELSE BestInsert(BestSort(SubSeq(rs, 1, Len(rs) - 1)), rs[Len(rs)])

IdleBest ==
    [st |-> "idle", key |-> TRUE, mode |-> "depart", debug |-> FALSE,
     \* baseTs, windowMin, stepMin and mode as the call received them
     args |-> NoQuery,
     geoO |-> Pending, geoD |-> Pending,
     \* the array of lines 218-221, empty until it is built
     candidates |-> <<>>, pass |-> 0, idx |-> 0,
     results |-> <<>>, trace |-> <<>>, result |-> Undefined,
     \* the requests sent to the directions service so far (history)
     probes |-> <<>>,
     \* the status of every answered request, in the order of the requests
     \* (history)
     answers |-> <<>>]

\* the mode of the pass sweepBest is in (lines 238, 250)
PassMode(B) == IF B.pass = 2 THEN Opposite(B.mode) ELSE B.mode

\* once(ts, m) sends its request (lines 223-226, 79)
BestIssue(B, pass, idx) ==
    [B EXCEPT !.pass = pass, !.idx = idx,
              !.probes = Append(@, [ts |-> B.candidates[idx],
                                    m |-> IF pass = 2 THEN Opposite(B.mode) ELSE B.mode])]

\* the note of an OK result: absent after the first pass (line 244), set
\* after the pass in the opposite mode (line 256)
FallbackNoteMutNever(pass) == ""

FallbackNote(pass) == IF pass = 2 THEN "fallback_to_opposite_mode" ELSE ""

\* lines 241-245 and 253-256: what sweepBest returns at the end of a pass
\* that found routes; results.sort(better) sorts the array in place
BestFound(B, rs, tr) ==
    LET sorted == BestSort(rs)
    IN  [B EXCEPT !.st = "done", !.results = sorted, !.trace = tr,
                  !.result = [status |-> "OK", best |-> sorted[1],
                              note |-> FallbackNote(B.pass),
                              trace |-> tr]]

\* sweepBest goes on after the outcome r of the probe it awaited
\* (lines 227, 237-256); a route kept in results remembers the request it
\* answers (probe, history)
BestAdvance(B0, r) ==
    LET B  == [B0 EXCEPT !.answers = Append(@, r.status)]
        ts == B.candidates[B.idx]
        tr == IF B.debug
              THEN Append(B.trace, [ts |-> ts, status |-> r.status, code |-> r.code,
                                    m |-> PassMode(B)])
              ELSE B.trace
        rs == IF r.status = "OK"
              THEN Append(B.results, [ts |-> ts, duration |-> r.duration,
                                      transfers |-> r.transfers, walk |-> r.walk,
                                      probe |-> Len(B.probes)])
              ELSE B.results
    IN  IF B.idx < Len(B.candidates)
        THEN BestIssue([B EXCEPT !.results = rs, !.trace = tr], B.pass, B.idx + 1)
        ELSE IF rs # <<>> THEN BestFound(B, rs, tr)
        ELSE IF B.pass = 1
        THEN BestIssue([B EXCEPT !.results = <<>>, !.trace = tr], 2, 1)
        ELSE [B EXCEPT !.st = "done", !.trace = tr,
                       !.result = [status |-> "ZERO_RESULTS", best |-> Undefined,
                                   note |-> "", trace |-> tr]]

\* an exception leaves sweepBest: nothing in it catches
BestThrows(B) == [B EXCEPT !.st = "threw", !.result = Thrown]

\* lines 213-221, 237-238: sweepBest goes on after both geocoding answers;
\* when both are ok the candidates are built and the first probe of the
\* requested mode is sent
BestAfterGeocodeMutNoAbort(B) ==
    BestIssue([B EXCEPT !.st = "probing",
                        !.candidates = BestCandidates(B.args.baseTs, B.args.mode,
                                                      B.args.windowMin, B.args.stepMin)],
              1, 1)
BestAfterGeocode(B) ==
    IF ~B.geoO.ok \/ ~B.geoD.ok
    THEN [B EXCEPT !.st = "done",
                   !.result = [status |-> "GEOCODE_FAIL", best |-> Undefined,
                               note |-> "", trace |-> <<>>]]
    ELSE BestIssue([B EXCEPT !.st = "probing",
                             !.candidates = BestCandidates(B.args.baseTs, B.args.mode,
                                                           B.args.windowMin, B.args.stepMin)],
                   1, 1)

\* a handler calls sweepBest (lines 204-213): both geocoding requests are
\* sent, unless the API key is missing and geocodeToPlaceId throws (line 54)
BestStart(B, key, debug, q) ==
    IF key
    THEN [B EXCEPT !.st = "geocoding", !.key = key, !.debug = debug,
                   !.mode = q.mode, !.args = q]
    ELSE BestThrows([B EXCEPT !.key = key, !.debug = debug, !.mode = q.mode,
                              !.args = q])

BestCall(key, debug) ==
    /\ best.st = "idle"
    /\ best' = BestStart(best, key, debug, cq)
    /\ UNCHANGED <<candVars, adapterVars, itinVars, procVars, poolVars, cacheVars, sweepVars, lruVars>>

\* the geocoding service answers for the origin or the destination
\* (lines 58-64); Promise.all (line 213) rejects with the first failure and
\* fulfils with the second answer
BestGeocodeAnswers(which, resp) ==
    /\ best.st = "geocoding"
    /\ best[which] = Pending
    /\ best' =
         IF resp.kind = "throw" THEN BestThrows(best)
         ELSE LET B == [best EXCEPT ![which] = GeocodeToPlaceId(resp)]
              IN  IF B.geoO = Pending \/ B.geoD = Pending THEN B
                  ELSE BestAfterGeocode(B)
    /\ UNCHANGED <<candVars, adapterVars, itinVars, procVars, poolVars, cacheVars, sweepVars, lruVars>>

\* the directions service answers the probe sweepBest awaits (lines 79-109,
\* 227-256)
BestProbeAnswers(resp) ==
    /\ best.st = "probing"
    /\ best' = IF resp.kind = "throw" THEN BestThrows(best)
               ELSE BestAdvance(best, GoogleTransitOnce(resp))
    /\ UNCHANGED <<candVars, adapterVars, itinVars, procVars, poolVars, cacheVars, sweepVars, lruVars>>

BestQueries ==
    [windowMin : 0..MaxBestWindow, stepMin : 1..MaxBestStep, mode : Modes, baseTs : {BaseTs}]

\* one sweepBest call on every query within the bounds
InitBest ==
    /\ cq \in BestQueries
    /\ best = IdleBest
    /\ candidates = <<>> /\ cpc = "off"
    /\ pool = NoPool /\ wk = <<>>
    /\ cache = EmptyCaches /\ bag = EmptyCaches /\ computes = <<>> /\ callers = <<>>
    /\ upstream = <<>> /\ sw = <<>> /\ mq = <<>>
    /\ lru = Off
    /\ ad = Off /\ kq = Off
    /\ hd = Off
    /\ proc = "up"

NextBest ==
    \/ \E key \in BOOLEAN, debug \in BOOLEAN : BestCall(key, debug)
    \/ \E which \in {"geoO", "geoD"}, resp \in GeoResponses : BestGeocodeAnswers(which, resp)
    \/ \E resp \in GoogleResponses : BestProbeAnswers(resp)

SpecBest == InitBest /\ [][NextBest]_vars

(***************************************************************************)
(* Properties of sweepBest (SpecBest)                                      *)
(***************************************************************************)

\* the requests of one pass over the candidates of B in mode m
PassProbes(B, m) == [x \in DOMAIN B.candidates |-> [ts |-> B.candidates[x], m |-> m]]

IsPrefix(p, q) == Len(p) <= Len(q) /\ p = SubSeq(q, 1, Len(p))

\* C12: sweepBest probes every candidate once in the requested mode, and
\* when none of them yields an OK route it runs one pass in the opposite
\* mode over the same candidates, each probed once, before it returns
\* ZERO_RESULTS; no probe of the opposite mode is sent while a candidate of
\* the requested mode is outstanding or after one of them was OK.
C12_OneFallbackPass ==
    LET first  == PassProbes(best, best.mode)
        second == PassProbes(best, IF best.mode = "arrive" THEN "depart" ELSE "arrive")
        n      == Len(best.candidates)
    IN  best.st \in {"probing", "done", "threw"} =>
          /\ IsPrefix(best.probes, first \o second)
          /\ (best.st = "done" /\ best.result.status = "ZERO_RESULTS")
                => best.probes = first \o second
          /\ (best.st = "done" /\ best.result.status = "OK")
                => best.probes = (IF best.result.note = "" THEN first ELSE first \o second)
          /\ (best.debug /\ Len(best.probes) > n)
                => \A x \in 1..n : best.trace[x].status # "OK"

\* an arrive sweep over several candidates found no route in either mode
\* and has returned ZERO_RESULTS after its depart pass
C12_Witness ==
    /\ best.st = "done" /\ best.result.status = "ZERO_RESULTS"
    /\ best.mode = "arrive"
    /\ Len(best.candidates) >= 2
    /\ Len(best.probes) = 2 * Len(best.candidates)
    /\ best.probes[Len(best.probes)].m = "depart"

\* C13: a sweep entry point never lets an exception reach its caller: a
\* sweepBest call never ends by throwing, whatever the upstream does (a
\* request that fails at network level, a missing API key), and every
\* sweepTransit call that ended carries a result.
C13_SweepNeverThrows ==
    /\ best.st # "threw"
    /\ \A s \in DOMAIN sw : sw[s].st = "done" => sw[s].result # Thrown

(***************************************************************************)
(* One cache Map under any sequence of lruGet and lruSet (lines 466-471)   *)
(***************************************************************************)
LruCap  == 2   \* capacities 1..LruCap handed to lruSet
LruKeys == 3   \* keys 1..LruKeys
LruOps  == 5   \* at most LruOps operations

\* no operation yet
NoOp == [op |-> "none", key |-> 0, before |-> <<>>, usedBefore |-> <<>>, ret |-> Undefined]

\* the Map starts empty (lines 325, 327). used[k] is the time of the last
\* lruGet hit or lruSet of key k, born[k] the time its entry was inserted
\* (0: never, or evicted since); `last` is the operation just done, with
\* the Map and the use times it found.
NewLru(max) ==
    [st |-> "on", map |-> <<>>, max |-> max, clock |-> 0,
     used |-> [k \in 1..LruKeys |-> 0], born |-> [k \in 1..LruKeys |-> 0],
     last |-> NoOp]

\* the insertion times after an operation left the Map m at time t
Born(L, m, t) ==
    [k \in 1..LruKeys |->
        IF ~MapHas(m, k) THEN 0
        ELSE IF MapHas(L.map, k) THEN L.born[k]
        ELSE t]

\* lruGet(map, k), line 466
LruGetOp(k) ==
    /\ lru.st = "on"
    /\ lru.clock < LruOps
    /\ lru' = [lru EXCEPT
                 !.map = LruGetMap(lru.map, k),
                 !.clock = @ + 1,
                 !.used = IF MapHas(lru.map, k) THEN [@ EXCEPT ![k] = lru.clock + 1] ELSE @,
                 !.last = [op |-> "get", key |-> k, before |-> lru.map,
                           usedBefore |-> lru.used, ret |-> LruGetValue(lru.map, k)]]
    /\ UNCHANGED <<candVars, adapterVars, itinVars, procVars, poolVars, cacheVars, sweepVars, entryVars>>

\* lruSet(map, k, val, max), lines 467-471, with a new object as the value
LruSetOp(k) ==
    /\ lru.st = "on"
    /\ lru.clock < LruOps
    /\ LET m == lruSet(lru.map, k, [t |-> "val", by |-> lru.clock + 1], lru.max)
       IN  lru' = [lru EXCEPT
                     !.map = m,
                     !.clock = @ + 1,
                     !.used = [@ EXCEPT ![k] = lru.clock + 1],
                     !.born = Born(lru, m, lru.clock + 1),
                     !.last = [op |-> "set", key |-> k, before |-> lru.map,
                               usedBefore |-> lru.used, ret |-> Undefined]]
    /\ UNCHANGED <<candVars, adapterVars, itinVars, procVars, poolVars, cacheVars, sweepVars, entryVars>>

InitLru ==
    /\ \E max \in 1..LruCap : lru = NewLru(max)
    /\ cq = NoQuery /\ candidates = <<>> /\ cpc = "off"
    /\ pool = NoPool /\ wk = <<>>
    /\ cache = EmptyCaches /\ bag = EmptyCaches /\ computes = <<>> /\ callers = <<>>
    /\ upstream = <<>> /\ sw = <<>> /\ mq = <<>>
    /\ best = Off
    /\ ad = Off /\ kq = Off
    /\ hd = Off
    /\ proc = "up"

NextLru ==
    \/ \E k \in 1..LruKeys : LruGetOp(k)
    \/ \E k \in 1..LruKeys : LruSetOp(k)

SpecLru == InitLru /\ [][NextLru]_vars

(***************************************************************************)
(* Properties of lruGet / lruSet (SpecLru)                                 *)
(***************************************************************************)

\* the keys the last operation removed from the Map
Evicted == MapKeys(lru.last.before) \ MapKeys(lru.map)

\* C14: lruSet of a key that is not in a full Map evicts exactly one entry,
\* the one whose last use (lruGet hit or lruSet) is the oldest, and the new
\* key is in the Map afterwards; no operation evicts anything else.
C14_EvictsLeastRecentlyUsed ==
    lru.st = "on" =>
        IF /\ lru.last.op = "set"
           /\ ~MapHas(lru.last.before, lru.last.key)
           /\ Len(lru.last.before) = lru.max
        THEN /\ Cardinality(Evicted) = 1
             /\ MapHas(lru.map, lru.last.key)
             /\ \A e \in Evicted : \A k \in MapKeys(lru.last.before) :
                    lru.last.usedBefore[e] <= lru.last.usedBefore[k]
        ELSE Evicted = {}

\* a full Map of two entries: the entry inserted first was used again, and
\* the insert of a third key has evicted the entry inserted second
C14_Witness ==
    /\ lru.st = "on" /\ lru.max = 2
    /\ lru.last.op = "set"
    /\ Len(lru.last.before) = 2
    /\ ~MapHas(lru.last.before, lru.last.key)
    /\ \E e \in Evicted : \E k \in MapKeys(lru.map) \ {lru.last.key} :
          /\ lru.born[k] > 0
          /\ lru.last.usedBefore[k] > lru.last.usedBefore[e]
          /\ \E x, y \in DOMAIN lru.last.before :
                /\ lru.last.before[x].k = e /\ lru.last.before[y].k = k
                /\ lru.last.before[x].v.by > lru.last.before[y].v.by

\* C15: the Map never holds more than max entries (max >= 1), and lruSet of
\* a key that is present leaves the set of keys as it was.
C15_SizeWithinCapacity ==
    lru.st = "on" =>
        /\ Len(lru.map) <= lru.max
        /\ (lru.last.op = "set" /\ MapHas(lru.last.before, lru.last.key))
              => MapKeys(lru.map) = MapKeys(lru.last.before)

\* a key of a full Map of two entries has been inserted again
C15_Witness ==
    /\ lru.st = "on" /\ lru.max = 2
    /\ lru.last.op = "set"
    /\ MapHas(lru.last.before, lru.last.key)
    /\ Len(lru.last.before) = 2
    /\ Len(lru.map) = 2
    /\ lru.map # lru.last.before

(***************************************************************************)
(* Completion of a computation (SpecCache)                                 *)
(***************************************************************************)

\* the computations that ended with an outcome value: the maker has stored
\* it (and the finally block may have run)
Finished == { id \in DOMAIN computes : computes[id].st \in {"stored", "settled"}
                                        /\ computes[id].val # Thrown }

\* the keys of cache instance inst that capacity has pushed out so far
EvictedKeys(inst) ==
    UNION { computes[id].evicts : id \in { j \in DOMAIN computes : computes[j].args.inst = inst } }

\* the key of computation id is in the cache or in the in-flight bag
CachedOrInflight(id) ==
    \/ MapHas(cache[computes[id].args.inst], computes[id].key)
    \/ BagHas(bag[computes[id].args.inst], computes[id].key)

\* the computations of the key of call c that were started before the one
\* call c started, and ended with an outcome value
EarlierFinished(c) ==
    { id \in Finished : /\ id < callers[c].wait
                        /\ computes[id].args.inst = callers[c].inst
                        /\ computes[id].key = callers[c].key }

\* C16 as stated: the key of a computation that ended with an outcome value
\* is always in the cache or in the in-flight bag, and no later call of the
\* key starts a new computation.
C16_FinishedKeyAlwaysCached ==
    /\ \A id \in Finished : CachedOrInflight(id)
    /\ \A c \in DOMAIN callers :
          (callers[c].st # "idle" /\ callers[c].started) => EarlierFinished(c) = {}

\* C16, amended: the outcome is stored before the key leaves the in-flight
\* bag, so the key of a computation that ended with an outcome value is in
\* the cache or in the in-flight bag unless capacity has evicted it; a call
\* that finds the key in the cache returns the outcome of a computation of
\* that key and starts nothing, and a call starts a new computation of a
\* finished key only after capacity evicted it.
C16_FinishedKeyCachedUntilEvicted ==
    /\ \A id \in Finished :
          \/ CachedOrInflight(id)
          \/ computes[id].key \in EvictedKeys(computes[id].args.inst)
    /\ \A id \in DOMAIN computes :
          (computes[id].st = "stored") =>
              \/ MapGet(cache[computes[id].args.inst], computes[id].key) = computes[id].val
              \/ computes[id].key \in EvictedKeys(computes[id].args.inst)
    /\ \A c \in DOMAIN callers :
          /\ (callers[c].st # "idle" /\ callers[c].present) =>
                /\ ~callers[c].started
                /\ \E id \in Finished :
                      /\ computes[id].args.inst = callers[c].inst
                      /\ computes[id].key = callers[c].key
                      /\ computes[id].val = callers[c].res
          /\ (callers[c].st # "idle" /\ callers[c].started /\ EarlierFinished(c) # {})
                => callers[c].key \in EvictedKeys(callers[c].inst)

\* a computation has stored its outcome and settled, its key has left the
\* in-flight bag and is in the cache, and a later call of the key got the
\* same outcome from the cache, starting nothing
C16_Witness ==
    \E id \in Finished, c \in DOMAIN callers :
        /\ computes[id].st = "settled"
        /\ ~BagHas(bag[computes[id].args.inst], computes[id].key)
        /\ MapGet(cache[computes[id].args.inst], computes[id].key) = computes[id].val
        /\ callers[c].st = "got" /\ callers[c].present /\ ~callers[c].started
        /\ callers[c].inst = computes[id].args.inst /\ callers[c].key = computes[id].key
        /\ callers[c].res = computes[id].val

\* C17: once the geocoding of the origin or of the destination has failed,
\* sweepBest sends no route probe in either mode, and it ends, if it has
\* ended, with the status GEOCODE_FAIL.
C17_GeocodeFailureAborts ==
    (best.st # "off" /\ ( \/ (best.geoO # Pending /\ ~best.geoO.ok)
                          \/ (best.geoD # Pending /\ ~best.geoD.ok) )) =>
        /\ best.probes = <<>>
        /\ \/ best.st = "geocoding"
           \/ best.st = "done" /\ best.result.status = "GEOCODE_FAIL"

(***************************************************************************)
(* Per-candidate outcomes of a sweep                                       *)
(***************************************************************************)

\* sweepTransit calls of one query and sweepBest calls of one query, each
\* on its own provider
NextSweeps ==
    \/ best = Off /\ NextSweep
    \/ best # Off /\ NextBest

SpecSweeps == (InitSweep \/ InitBest) /\ [][NextSweeps]_vars

\* the statuses of the answers sweepBest got in the pass it ended in
LastPassStatuses(B) ==
    { B.answers[x] : x \in { y \in DOMAIN B.answers : B.probes[y].m = PassMode(B) } }

\* a sweepTransit call has ended: it returned, or the process ended under it
SweepEnded(S) == S.st = "done" \/ (S.st # "idle" /\ proc = "exited")

\* C18: a candidate that ends in an error does not fail the sweep. A
\* sweepTransit call that has ended has returned success with a best route
\* whenever at least one of its candidates yields an accepted route, however
\* the other candidates ended, and reports failure (ZERO_RESULTS) only when
\* none does. A sweepBest call that has ended has returned the status OK
\* whenever a probe of its last pass was answered OK, and otherwise
\* returned GEOCODE_FAIL or ZERO_RESULTS or got no OK answer at all.
C18_CandidateErrorsNotFatal ==
    /\ \A s \in DOMAIN sw :
          SweepEnded(sw[s]) =>
              LET acc == Accepted(Outcomes(sw[s]))
              IN  /\ acc # {} => /\ sw[s].st = "done"
                                 /\ sw[s].result.ok /\ sw[s].result.best.t = "route"
                  /\ (sw[s].st = "done" /\ ~sw[s].result.ok)
                        => (acc = {} /\ sw[s].result.status = "ZERO_RESULTS")
    /\ best.st \in {"done", "threw"} =>
          /\ "OK" \in LastPassStatuses(best)
                => (best.st = "done" /\ best.result.status = "OK")
          /\ (best.st = "done" /\ best.result.status # "OK") =>
                \/ best.result.status = "GEOCODE_FAIL"
                \/ /\ best.result.status = "ZERO_RESULTS"
                   /\ "OK" \notin LastPassStatuses(best)

\* the sweeps that return: HTTP errors, empty answers and policy rejections
\* of other candidates leave the best route in place
ReturnedSweepErrorsNotFatal ==
    /\ \A s \in DOMAIN sw :
          sw[s].st = "done" =>
              LET acc == Accepted(Outcomes(sw[s]))
              IN  /\ acc # {} => (sw[s].result.ok /\ sw[s].result.best.t = "route")
                  /\ ~sw[s].result.ok => (acc = {} /\ sw[s].result.status = "ZERO_RESULTS")
    /\ best.st = "done" =>
          /\ "OK" \in LastPassStatuses(best) => best.result.status = "OK"
          /\ best.result.status # "OK" =>
                \/ best.result.status = "GEOCODE_FAIL"
                \/ /\ best.result.status = "ZERO_RESULTS"
                   /\ \A x \in DOMAIN best.answers : best.answers[x] # "OK"

\* C19: with debug set, the trace a sweepTransit call returns has exactly
\* one entry for every candidate instant of the sweep, whatever the outcome
\* of its probe.
C19_TraceComplete ==
    \A s \in DOMAIN sw :
        (sw[s].st = "done" /\ sw[s].debug) =>
            \A x \in DOMAIN sw[s].pool.items :
                Cardinality({ y \in DOMAIN sw[s].trace :
                                sw[s].trace[y].ts = sw[s].pool.items[x] }) = 1

\* the provider's answer carries a route with a section of an excluded category
HasExcludedSection(resp) ==
    /\ resp.kind = "json"
    /\ \E x \in DOMAIN resp.sections :
          /\ resp.sections[x].transport
          /\ resp.sections[x].category \in NON_D_TICKET_PRODUCTS

\* C20: in a sweep with the dticket flag, a candidate whose route has a
\* section of an excluded category is not among the routes the best is
\* selected from, and with debug set its trace entry has the status
\* REJECTED_D_TICKET, which is neither ZERO_RESULTS nor HTTP_ERROR.
C20_RejectedExcludedAndTraced ==
    \A s \in DOMAIN sw :
        (sw[s].st = "done" /\ sw[s].dticket) =>
            \A x \in DOMAIN sw[s].pool.items :
                HasExcludedSection(upstream[sw[s].pool.items[x]]) =>
                    /\ sw[s].pool.out[x] = Null
                    /\ sw[s].result.ok => sw[s].result.best.ts # sw[s].pool.items[x]
                    /\ sw[s].debug =>
                          \A y \in DOMAIN sw[s].trace :
                              sw[s].trace[y].ts = sw[s].pool.items[x] =>
                                  /\ sw[s].trace[y].status = "REJECTED_D_TICKET"
                                  /\ sw[s].trace[y].status \notin {"ZERO_RESULTS", "HTTP_ERROR", "OK"}

\* a sweep with the flag has returned; its trace holds a rejected candidate
\* and a candidate without a route
C20_Witness ==
    \E s \in DOMAIN sw :
        /\ sw[s].st = "done" /\ sw[s].dticket /\ sw[s].debug
        /\ \E x, y \in DOMAIN sw[s].trace :
              /\ sw[s].trace[x].status = "REJECTED_D_TICKET"
              /\ sw[s].trace[y].status = "ZERO_RESULTS"
        /\ \E x \in DOMAIN sw[s].pool.items :
              HasExcludedSection(upstream[sw[s].pool.items[x]])

(***************************************************************************)
(* Shape of the candidate sequence and the effective step (SpecCand)       *)
(***************************************************************************)

\* C21: the candidates of sweepTransit are strictly ascending in time,
\* consecutive candidates differ by exactly the effective step, and every
\* candidate lies inside the window: [anchor - window, anchor] in arrive
\* mode, [anchor, anchor + window] in depart mode.
C21_CandidatesAscendingInWindow ==
    cpc = "done" =>
        LET step == EffStep(cq.windowMin, cq.stepMin) * 60
            lo   == IF cq.mode = "arrive" THEN cq.baseTs - cq.windowMin * 60
                                          ELSE cq.baseTs
            hi   == IF cq.mode = "arrive" THEN cq.baseTs
                                          ELSE cq.baseTs + cq.windowMin * 60
        IN  /\ step > 0
            /\ \A x \in 1..(Len(candidates) - 1) :
                  /\ candidates[x] < candidates[x + 1]
                  /\ candidates[x + 1] - candidates[x] = step
            /\ \A x \in DOMAIN candidates :
                  candidates[x] >= lo /\ candidates[x] <= hi

\* an arrive-mode sweep with at least three candidates, the first of them on
\* the early edge of the window
C21_Witness ==
    /\ cpc = "done" /\ cq.mode = "arrive"
    /\ Len(candidates) >= 3
    /\ candidates[1] = cq.baseTs - cq.windowMin * 60
    /\ candidates[Len(candidates)] < cq.baseTs

\* the number of candidates the loop of sweepTransit yields for a window
\* and a step, both in minutes
CountWith(windowMin, step) == (windowMin \div step) + 1

\* C22: the effective step is the requested step whenever the requested
\* window and step yield at most MAX_PROBES candidates, and otherwise it is
\* the smallest step in minutes whose number of candidates does not exceed
\* MAX_PROBES.
C22_EffectiveStepSmallestWithinCap ==
    (cpc = "done" /\ cq.stepMin >= 1) =>
        LET e == EffStep(cq.windowMin, cq.stepMin)
        IN  IF CountWith(cq.windowMin, cq.stepMin) <= MAX_PROBES
            THEN e = cq.stepMin
            ELSE /\ Len(candidates) <= MAX_PROBES
                 /\ \A st \in 1..(e - 1) :
                       CountWith(cq.windowMin, st) > MAX_PROBES

(***************************************************************************)
(* Order of the two passes of sweepBest and the fallback note (SpecBest)   *)
(***************************************************************************)

\* C23: sweepBest sends a request in the opposite mode only after every
\* request in the requested mode was answered and none of the answers was
\* OK; once a request in the requested mode was answered OK no request in
\* the opposite mode is ever sent; and the result carries the note
\* 'fallback_to_opposite_mode' exactly when its best route answers a
\* request in the opposite mode.
C23_FallbackOrderAndNote ==
    LET n == Len(best.candidates)
    IN  best.st \in {"probing", "done", "threw"} =>
          /\ \A x \in DOMAIN best.probes :
                best.probes[x].m # best.mode =>
                    /\ x > n
                    /\ Len(best.answers) >= x - 1
                    /\ \A y \in 1..n : best.answers[y] # "OK"
          /\ (\E y \in DOMAIN best.answers : y <= n /\ best.answers[y] = "OK")
                => \A x \in DOMAIN best.probes : best.probes[x].m = best.mode
          /\ best.st = "done" =>
                ((best.result.note = "fallback_to_opposite_mode")
                    <=> /\ best.result.status = "OK"
                        /\ best.probes[best.result.best.probe].m # best.mode)

\* an arrive sweep over several candidates has returned a best route that
\* answers a depart request, with the note, after a first pass without a
\* route
C23_Witness ==
    /\ best.st = "done" /\ best.result.status = "OK"
    /\ best.mode = "arrive"
    /\ Len(best.candidates) >= 2
    /\ best.result.note = "fallback_to_opposite_mode"
    /\ best.result.best.probe > Len(best.candidates)
    /\ best.probes[best.result.best.probe].m = "depart"
    /\ \E y \in 1..Len(best.candidates) : best.answers[y] = "HTTP_ERROR"

(***************************************************************************)
(* The cache key of a route query against the request sent upstream        *)
(* (lines 566 and 486-493)                                                 *)
(***************************************************************************)
MaxCoordOffset == 5   \* origin latitudes up to MaxCoordOffset millionths of a degree apart

\* lines 486-493: the query parameters of the request that depend on the
\* arguments; template literals print a coordinate with all its digits
UpstreamCall(args) ==
    [origin      |-> <<args.origin.lat, args.origin.lng>>,
     destination |-> <<args.destination.lat, args.destination.lng>>,
     param       |-> IF args.mode = "arrive" THEN "arrivalTime" ELSE "departureTime",
     time        |-> args.ts]

\* the arguments of hereTransitOnceCached
KeyQueries ==
    [origin      : {[lat |-> Origin.lat + d, lng |-> Origin.lng] : d \in 0..MaxCoordOffset},
     destination : {Destination},
     mode        : Modes,
     ts          : {BaseTs, BaseTs + 60},
     dticket     : BOOLEAN]

\* two calls of hereTransitOnceCached build their keys (line 566)
BuildKeys ==
    /\ kq.st = "ready"
    /\ kq' = [kq EXCEPT !.st = "done", !.ka = TransitKey(kq.a), !.kb = TransitKey(kq.b)]
    /\ UNCHANGED <<candVars, poolVars, cacheVars, sweepVars, lruVars, entryVars, itinVars, procVars, ad>>

InitKey ==
    /\ \E a \in KeyQueries, b \in KeyQueries :
          kq = [st |-> "ready", a |-> a, b |-> b, ka |-> <<>>, kb |-> <<>>]
    /\ ad = Off
    /\ cq = NoQuery /\ candidates = <<>> /\ cpc = "off"
    /\ pool = NoPool /\ wk = <<>>
    /\ cache = EmptyCaches /\ bag = EmptyCaches /\ computes = <<>> /\ callers = <<>>
    /\ upstream = <<>> /\ sw = <<>> /\ mq = <<>>
    /\ lru = Off /\ best = Off
    /\ hd = Off
    /\ proc = "up"

NextKey == BuildKeys

SpecKey == InitKey /\ [][NextKey]_vars

\* C24: two route queries get the same key from hereTransitOnceCached only
\* if they issue the same upstream call: same origin and destination
\* coordinates, same mode and same candidate instant as sent upstream.
C24_SameKeyOnlyIfSameUpstreamCall ==
    (kq.st = "done" /\ kq.ka = kq.kb) =>
        /\ UpstreamCall(kq.a) = UpstreamCall(kq.b)
        /\ kq.a.origin = kq.b.origin /\ kq.a.destination = kq.b.destination
        /\ kq.a.mode = kq.b.mode /\ kq.a.ts = kq.b.ts

(***************************************************************************)
(* One hereTransitOnce call on every upstream answer (lines 484-562)       *)
(***************************************************************************)
MaxSections == 2   \* routes of 1..MaxSections sections

\* a section with every field the adapter reads
Section(transport, category, mode, product, hasDuration, duration, dep, arr) ==
    [transport |-> transport, category |-> category, mode |-> mode, product |-> product,
     hasDuration |-> hasDuration, duration |-> duration, dep |-> dep, arr |-> arr]

\* the sections of the upstream answers; times are milliseconds
AdapterSections ==
    { \* a regional train with a summary duration and no times
      Section(TRUE, "Regional Train", "regionalTrain", "", TRUE, 150, Null, Null),
      \* a regional train with times and no summary duration
      Section(TRUE, "Regional Train", "regionalTrain", "", FALSE, 0, Num(60000), Num(210500)),
      \* a walk with times and no summary duration
      Section(FALSE, "", "", "", FALSE, 0, Num(240000), Num(300000)),
      \* a summary duration below zero
      Section(TRUE, "Bus", "bus", "", TRUE, -60, Null, Null),
      \* a summary duration of zero, the arrival before the departure
      Section(TRUE, "Bus", "bus", "", TRUE, 0, Num(400000), Num(30000)),
      \* a high-speed train as the routing service describes it
      Section(TRUE, "ICE", "highSpeedTrain", "", TRUE, 100, Null, Null),
      \* a category of the excluded set and no mode
      Section(TRUE, "highSpeedTrain", "", "", TRUE, 100, Null, Null),
      \* a padded category
      Section(TRUE, " intercityTrain ", "", "", TRUE, 100, Null, Null),
      \* a product name of the excluded set
      Section(TRUE, "Bus", "bus", "internationalTrain", TRUE, 100, Null, Null),
      \* a product name and a category in front of an excluded mode
      Section(TRUE, "ICE", "highSpeedTrain", "ICE 771", TRUE, 100, Null, Null),
      \* a departure time that Date.parse cannot read
      Section(TRUE, "Bus", "bus", "", TRUE, 100, NaN, Num(60000)),
      \* a departure at 0 ms (1970-01-01T00:00:00.000Z)
      Section(TRUE, "Bus", "bus", "", FALSE, 0, Num(0), Num(60000)) }

AdapterResponses ==
    { [kind |-> "throw"], [kind |-> "http", code |-> 500],
      [kind |-> "json", sections |-> <<>>] }
    \cup { [kind |-> "json", sections |-> q] :
              q \in UNION { [1..n -> AdapterSections] : n \in 1..MaxSections } }

\* hereTransitOnce runs on the upstream answer (lines 495-561); a fetch
\* that fails at network level rejects the call
Adapt ==
    /\ ad.st = "ready"
    /\ ad' = [ad EXCEPT !.st = "done",
                        !.result = IF ad.resp.kind = "throw" THEN Thrown
                                   ELSE HereTransitOnce(ad.resp, ad.dticket)]
    /\ UNCHANGED <<candVars, poolVars, cacheVars, sweepVars, lruVars, entryVars, itinVars, procVars, kq>>

InitAdapter ==
    /\ \E resp \in AdapterResponses, dticket \in BOOLEAN :
          ad = [st |-> "ready", resp |-> resp, dticket |-> dticket, result |-> Undefined]
    /\ kq = Off
    /\ cq = NoQuery /\ candidates = <<>> /\ cpc = "off"
    /\ pool = NoPool /\ wk = <<>>
    /\ cache = EmptyCaches /\ bag = EmptyCaches /\ computes = <<>> /\ callers = <<>>
    /\ upstream = <<>> /\ sw = <<>> /\ mq = <<>>
    /\ lru = Off /\ best = Off
    /\ hd = Off
    /\ proc = "up"

NextAdapter == Adapt

SpecAdapter == InitAdapter /\ [][NextAdapter]_vars

\* hereTransitOnce has returned for a route with sections
Adapted == ad.st = "done" /\ ad.resp.kind = "json" /\ Len(ad.resp.sections) > 0

\* the product category the adapter reports for a transit leg (line 548)
LegCategory(sec) == Leg(sec).product

\* C25 as stated: with the flag set, hereTransitOnce rejects a route if and
\* only if at least one of its transit legs has a product category in the
\* excluded set.
C25_RejectsIffExcludedLegCategory ==
    (Adapted /\ ad.dticket) =>
        ((ad.result.status = "REJECTED_D_TICKET")
            <=> \E x \in DOMAIN ad.resp.sections :
                   /\ ad.resp.sections[x].transport
                   /\ LegCategory(ad.resp.sections[x]) \in NON_D_TICKET_PRODUCTS)

\* C25 (amended): with the flag set, hereTransitOnce rejects a route if and
\* only if at least one of its sections with a transport has in the
\* excluded set either its trimmed category (its mode when it has no
\* category) or the first present of its product name, its mode and its
\* category; without the flag no route is rejected. So an excluded mode
\* rejects the route of a section that has no category or no product
\* name, and does not by itself reject the route of a section that has
\* both.
C25_RejectsIffCategoryOrProductExcluded ==
    Adapted =>
        /\ (ad.result.status = "REJECTED_D_TICKET")
              <=> /\ ad.dticket
                  /\ \E x \in DOMAIN ad.resp.sections :
                        LET sec == ad.resp.sections[x]
                        IN  /\ sec.transport
                            /\ \/ Trim(OrStr(sec.category, sec.mode)) \in NON_D_TICKET_PRODUCTS
                               \/ OrStr(sec.product, OrStr(sec.mode, sec.category))
                                     \in NON_D_TICKET_PRODUCTS
        /\ (ad.dticket /\ \E x \in DOMAIN ad.resp.sections :
                             LET sec == ad.resp.sections[x]
                             IN  /\ sec.transport
                                 /\ sec.mode \in NON_D_TICKET_PRODUCTS
                                 /\ sec.category = "" \/ sec.product = "")
              => ad.result.status = "REJECTED_D_TICKET"
        /\ (\A x \in DOMAIN ad.resp.sections :
                LET sec == ad.resp.sections[x]
                IN  /\ sec.category # "" /\ sec.product # ""
                    /\ Trim(sec.category) \notin NON_D_TICKET_PRODUCTS
                    /\ sec.product \notin NON_D_TICKET_PRODUCTS)
              => ad.result.status # "REJECTED_D_TICKET"

\* a route is rejected for its second section, a high-speed train without
\* product name whose reported product category "ICE" is not in the
\* excluded set
C25_Witness ==
    /\ Adapted /\ ad.dticket
    /\ ad.result.status = "REJECTED_D_TICKET"
    /\ Len(ad.resp.sections) >= 2
    /\ ad.resp.sections[1].mode = "regionalTrain"
    /\ ad.resp.sections[2].mode = "highSpeedTrain"
    /\ LegCategory(ad.resp.sections[2]) = "ICE"
    /\ ad.resp.sections[2].product = ""

\* with the flag set, a route of one high-speed train with the category
\* "ICE" and the product name "ICE 771" is accepted
NamedHighSpeedTrainAccepted ==
    /\ Adapted /\ ad.dticket
    /\ ad.result.status = "OK"
    /\ Len(ad.resp.sections) = 1
    /\ ad.resp.sections[1].mode = "highSpeedTrain"
    /\ ad.resp.sections[1].category = "ICE"
    /\ ad.resp.sections[1].product = "ICE 771"

\* C26: the duration hereTransitOnce reports is the sum of the sections'
\* summary durations when that sum is positive; when the sum is absent or
\* not positive it is the latest arrival minus the earliest departure over
\* all sections, when the arrival is the later; it is never negative.
C26_DurationSumOrSpanNeverNegative ==
    (Adapted /\ ad.result.ok) =>
        LET sum == SumDurations(ad.resp.sections)
            fd  == FirstDep(ad.resp.sections, 0)
            la  == LastArr(ad.resp.sections, 0)
        IN  /\ sum > 0 => ad.result.durationSec = sum
            /\ (sum <= 0 /\ fd # 0 /\ la # 0 /\ la > fd)
                  => ad.result.durationSec = RoundMs(la - fd)
            /\ ad.result.durationSec >= 0

(***************************************************************************)
(* Two sweepTransit calls with the same arguments that overlap in time     *)
(* (lines 576-601 on TRN_CACHE and TRN_INFLIGHT)                           *)
(***************************************************************************)
MaxTwinWindow == 1   \* windows 0..MaxTwinWindow minutes, step 1

\* a request handler calls sweepTransit while no other call has returned:
\* the two calls run concurrently
TwinCall(s) ==
    /\ \A t \in DOMAIN sw : sw[t].st # "done"
    /\ SweepCall(s, cq.dticket, cq.debug)

\* both calls get the same mode, anchor, window, step and flag
TwinQueries ==
    [windowMin : 0..MaxTwinWindow, stepMin : {1}, mode : Modes, baseTs : {BaseTs},
     debug : {FALSE}, dticket : BOOLEAN]

\* the cache and the in-flight set start empty
InitTwin ==
    /\ cq \in TwinQueries
    /\ upstream \in [Range(Candidates(cq.baseTs, cq.mode, cq.windowMin, cq.stepMin))
                        -> Responses]
    /\ sw = [s \in Sweeps |-> IdleSweep]
    /\ mq = <<>>
    /\ cache = EmptyCaches /\ bag = EmptyCaches /\ computes = <<>> /\ callers = <<>>
    /\ candidates = <<>> /\ cpc = "off"
    /\ pool = NoPool /\ wk = <<>>
    /\ lru = Off /\ best = Off
    /\ ad = Off /\ kq = Off
    /\ hd = Off
    /\ proc = "up"

NextTwin ==
    \/ \E s \in DOMAIN sw : TwinCall(s)
    \/ \E id \in DOMAIN computes : UpstreamAnswers(id)
    \/ MtStore
    \/ MtFinally
    \/ MtResume
    \/ MtThen
    \/ MtFin
    \/ MtEnd
    \/ ProcessExits

SpecTwin == InitTwin /\ [][NextTwin]_vars

\* both calls have returned
TwinsDone == \A s \in DOMAIN sw : sw[s].st = "done"

\* the distinct candidate instants of the calls
TwinInstants == Range(Candidates(cq.baseTs, cq.mode, cq.windowMin, cq.stepMin))

\* C27: two concurrent sweepTransit calls with the same arguments on an
\* empty cache issue as many upstream route calls as there are distinct
\* candidate instants, and both return the same best route.
C27_TwinSweepsOneCallPerInstant ==
    TwinsDone =>
        /\ Len(computes) = Cardinality(TwinInstants)
        /\ sw[1].result = sw[2].result

\* both calls have returned the same route over two instants; the second
\* call was made while a request of the first was in flight and an answer
\* was already cached
C27_Witness ==
    /\ TwinsDone
    /\ Cardinality(TwinInstants) = 2
    /\ Len(computes) = 2
    /\ sw[1].result.ok /\ sw[1].result = sw[2].result
    /\ \E id \in DOMAIN computes : Len(computes[id].waiters) = 2
    /\ \E id \in DOMAIN computes : Len(computes[id].waiters) = 1

(***************************************************************************)
(* Termination of runPool: the executor of SpecPool, where every worker    *)
(* invocation that was started settles and the event loop runs every       *)
(* reaction that is queued (lines 221-235)                                 *)
(***************************************************************************)
SpecPoolFair == InitPool /\ [][NextPool]_vars /\ WF_vars(NextPool)

\* C29: runPool eventually returns its results array for every finite
\* item list, the empty list included, when every started worker
\* invocation settles.
C29_RunPoolEventuallyReturns == pool.called ~> pool.returned

\* a runPool call on a list with items returns, or the process ends
NonEmptyPoolReturnsOrExits ==
    (pool.called /\ Len(pool.items) > 0) ~> (pool.returned \/ proc = "exited")

(***************************************************************************)
(* Termination of sweepTransit: one call on an empty cache, where every    *)
(* upstream request that was sent settles and the event loop runs every    *)
(* reaction that is queued (lines 576-601)                                 *)
(***************************************************************************)
MaxLiveWindow == 8   \* windows 0..MaxLiveWindow minutes, step 1
MaxThrows     == 1   \* at most MaxThrows upstream requests fail at network level

\* an upstream request settles: it throws, or it returns a route
LiveResponses ==
    { [kind |-> "throw"],
      [kind |-> "json", sections |->
          << TransitSec("Regional Train", "regionalTrain", "", 150),
             TransitSec("Bus", "bus", "", 150) >>] }

LiveQueries ==
    [windowMin : 0..MaxLiveWindow, stepMin : {1}, mode : {"depart"}, baseTs : {BaseTs},
     debug : {FALSE}, dticket : {FALSE}]

InitLive ==
    /\ cq \in LiveQueries
    /\ upstream \in [Range(Candidates(cq.baseTs, cq.mode, cq.windowMin, cq.stepMin))
                        -> LiveResponses]
    /\ Cardinality({ts \in DOMAIN upstream : upstream[ts].kind = "throw"}) <= MaxThrows
    /\ sw = [s \in {1} |-> IdleSweep]
    /\ mq = <<>>
    /\ cache = EmptyCaches /\ bag = EmptyCaches /\ computes = <<>> /\ callers = <<>>
    /\ candidates = <<>> /\ cpc = "off"
    /\ pool = NoPool /\ wk = <<>>
    /\ lru = Off /\ best = Off
    /\ ad = Off /\ kq = Off
    /\ hd = Off
    /\ proc = "up"

NextLive ==
    \/ SweepCall(1, cq.dticket, cq.debug)
    \/ \E id \in DOMAIN computes : UpstreamAnswers(id)
    \/ MtStore
    \/ MtFinally
    \/ MtResume
    \/ MtThen
    \/ MtFin
    \/ MtEnd
    \/ ProcessExits

SpecLive == InitLive /\ [][NextLive]_vars /\ WF_vars(NextLive)

\* the upstream route calls issued for instant ts
CallsFor(ts) == {id \in DOMAIN computes : computes[id].args.ts = ts}

\* sweepTransit eventually returns
SweepEventuallyReturns == <>(sw[1].st = "done")

\* sweepTransit eventually returns, or the process ends
SweepEventuallyReturnsOrExits == <>(sw[1].st = "done" \/ proc = "exited")

\* C28: when every upstream call settles, sweepTransit eventually returns
\* (SweepEventuallyReturns), and it returns having issued at most one
\* upstream route call per candidate instant, hence at most MAX_PROBES
\* upstream calls.
C28_ReturnsWithinCandidateCap ==
    sw[1].st = "done" =>
        /\ \A ts \in DOMAIN upstream : Cardinality(CallsFor(ts)) <= 1
        /\ Len(computes) <= MAX_PROBES

(***************************************************************************)
(* Independence of the two cache instances (SpecCache)                     *)
(***************************************************************************)

\* the cache Map or the in-flight Map of instance inst changes in the step
InstChanged(inst) == cache'[inst] # cache[inst] \/ bag'[inst] # bag[inst]

\* C30: a step of a resolve on one cache instance (the call, the store of
\* its maker with the eviction it causes, the removal from the in-flight
\* set) leaves the cache Map and the in-flight Map of the other instance as
\* they are, entries and order: resolving a route key changes TRN_CACHE and
\* TRN_INFLIGHT only, resolving a geocoding key GEO_CACHE and GEO_INFLIGHT
\* only.
C30_InstancesIndependent ==
    [][ /\ \A c \in DOMAIN callers :
              (callers[c].st = "idle" /\ callers'[c].st # "idle") =>
                  \A other \in Insts \ {callers'[c].inst} : ~InstChanged(other)
        /\ \A id \in DOMAIN computes :
              computes'[id].st # computes[id].st =>
                  \A other \in Insts \ {computes[id].args.inst} : ~InstChanged(other)
        /\ \A i, j \in Insts : (InstChanged(i) /\ InstChanged(j)) => i = j
      ]_vars

\* a store into the route cache evicted an entry while the geocoding cache
\* keeps the entry stored before
C30_Witness ==
    \E g, r \in DOMAIN computes :
        /\ g < r
        /\ computes[g].args.inst = "GEO" /\ computes[g].st = "settled"
        /\ computes[r].args.inst = "TRN" /\ computes[r].evicts # {}
        /\ MapHas(cache["GEO"], computes[g].key)
        /\ MapGet(cache["GEO"], computes[g].key) = ValueOf(g)
        /\ ~MapHas(cache["TRN"], computes[g].key)

(***************************************************************************)
(* A maker that throws (SpecCache)                                         *)
(***************************************************************************)

\* the computations whose maker threw and whose promise has settled
ThrownSettled == { id \in DOMAIN computes :
                     computes[id].st = "settled" /\ computes[id].val = Thrown }

\* C31: when a compute started through inflight throws, its key is removed
\* from the in-flight Map, nothing is stored in the cache by it, every
\* caller attached to it receives the same failure, and a later resolve of
\* the key that finds it neither cached nor in flight starts a fresh
\* compute; no in-flight entry outlives its computation.
C31_ThrowClearsInflightStoresNothing ==
    /\ \A id \in ThrownSettled :
          LET inst == computes[id].args.inst
              k    == computes[id].key
          IN  /\ MapHas(bag[inst], k) => MapGet(bag[inst], k) # id
              /\ MapHas(cache[inst], k) => MapGet(cache[inst], k) # ValueOf(id)
              /\ computes[id].evicts = {}
              /\ \A c \in DOMAIN callers :
                    (callers[c].st = "got" /\ callers[c].wait = id
                        /\ callers[c].inst = inst /\ ~callers[c].present)
                        => callers[c].res = Thrown
              /\ \A c \in DOMAIN callers :
                    (callers[c].st # "idle" /\ callers[c].inst = inst
                        /\ callers[c].key = k /\ ~callers[c].present
                        /\ callers[c].saw = {})
                        => /\ callers[c].started
                           /\ callers[c].wait # id \/ computes[id].waiters[1] = c
    /\ \A inst \in Insts : \A x \in DOMAIN bag[inst] :
          computes[bag[inst][x].v].st # "settled"

\* two callers attached to a computation that threw both got the failure,
\* and a third call of the same key started a fresh compute
C31_Witness ==
    \E id \in ThrownSettled :
        /\ Len(computes[id].waiters) = 2
        /\ \A x \in 1..2 : /\ callers[computes[id].waiters[x]].st = "got"
                           /\ callers[computes[id].waiters[x]].res = Thrown
        /\ \E c \in DOMAIN callers, id2 \in DOMAIN computes :
              /\ id2 > id
              /\ computes[id2].key = computes[id].key
              /\ computes[id2].args.inst = computes[id].args.inst
              /\ callers[c].wait = id2 /\ callers[c].started

(***************************************************************************)
(* The anchor among the candidates (SpecCand)                              *)
(***************************************************************************)

\* C32: the anchor instant of sweepTransit, the requested arrival or
\* departure time, is one of the candidates, in arrive and in depart mode,
\* for every window and step.
C32_AnchorIsCandidate ==
    cpc = "done" => \E x \in DOMAIN candidates : candidates[x] = cq.baseTs

(***************************************************************************)
(* A sweep with the dticket flag and a sweep without it on the same cache, *)
(* one after the other or overlapping, in either order (lines 564-601)     *)
(***************************************************************************)
MaxMixedWindow == 1   \* windows 0..MaxMixedWindow minutes, step 1

\* a request handler calls sweepTransit: call 1 with the flag, call 2 without
MixedCall(s) == SweepCall(s, s = 1, cq.debug)

\* both calls get the same mode, anchor, window and step
MixedQueries ==
    [windowMin : 0..MaxMixedWindow, stepMin : {1}, mode : Modes, baseTs : {BaseTs},
     debug : {TRUE}]

\* the upstream answers of the two calls: a thrown error, a route of allowed
\* categories and a faster route of an excluded category
MixedResponses ==
    { [kind |-> "throw"],
      [kind |-> "json", sections |->
          << TransitSec("Regional Train", "regionalTrain", "", 150),
             TransitSec("Bus", "bus", "", 150) >>],
      [kind |-> "json", sections |->
          << TransitSec("highSpeedTrain", "", "", 100) >>] }

InitMixed ==
    /\ cq \in MixedQueries
    /\ upstream \in [Range(Candidates(cq.baseTs, cq.mode, cq.windowMin, cq.stepMin))
                        -> MixedResponses]
    /\ sw = [s \in Sweeps |-> IdleSweep]
    /\ mq = <<>>
    /\ cache = EmptyCaches /\ bag = EmptyCaches /\ computes = <<>> /\ callers = <<>>
    /\ candidates = <<>> /\ cpc = "off"
    /\ pool = NoPool /\ wk = <<>>
    /\ lru = Off /\ best = Off
    /\ ad = Off /\ kq = Off
    /\ hd = Off
    /\ proc = "up"

NextMixed ==
    \/ \E s \in DOMAIN sw : MixedCall(s)
    \/ \E id \in DOMAIN computes : UpstreamAnswers(id)
    \/ MtStore
    \/ MtFinally
    \/ MtResume
    \/ MtThen
    \/ MtFin
    \/ MtEnd
    \/ ProcessExits

SpecMixed == InitMixed /\ [][NextMixed]_vars

\* C33: a sweepTransit call without the dticket flag reports no candidate
\* as REJECTED_D_TICKET and keeps routes with excluded product categories
\* eligible as best, also when the same instants were probed and rejected
\* by a call with the flag that ran before it or runs with it on the same
\* cache: its result is the one the upstream answers alone determine.
C33_UnflaggedSweepUnaffectedByFlagged ==
    \A s \in DOMAIN sw :
        (sw[s].st = "done" /\ ~sw[s].dticket) =>
            LET outs == [x \in DOMAIN sw[s].pool.items |->
                            IF upstream[sw[s].pool.items[x]].kind = "throw" THEN Hole
                            ELSE ProbeResult(
                                   HereTransitOnce(upstream[sw[s].pool.items[x]], FALSE),
                                   sw[s].pool.items[x])]
            IN  /\ sw[s].pool.out = outs
                /\ sw[s].result = SweepResult(outs)
                /\ \A y \in DOMAIN sw[s].trace :
                      sw[s].trace[y].status # "REJECTED_D_TICKET"
                /\ \A x \in DOMAIN outs :
                      (upstream[sw[s].pool.items[x]].kind = "json"
                          /\ HasExcludedSection(upstream[sw[s].pool.items[x]]))
                          => outs[x].t = "route"

\* the call with the flag probed an instant first and rejected it, and the
\* call without the flag returned the route of that instant as best
C33_Witness ==
    /\ sw[1].st = "done" /\ sw[2].st = "done"
    /\ sw[2].result.ok /\ ExcludedLegs(sw[2].result.best) # {}
    /\ \E y \in DOMAIN sw[1].trace :
          /\ sw[1].trace[y].status = "REJECTED_D_TICKET"
          /\ sw[1].trace[y].ts = sw[2].result.best.ts
    /\ \E a, b \in DOMAIN computes :
          /\ a < b
          /\ computes[a].args.dticket /\ ~computes[b].args.dticket
          /\ computes[a].args.ts = computes[b].args.ts
          /\ computes[a].waiters[1][1] = 1 /\ computes[b].waiters[1][1] = 2

(***************************************************************************)
(* Routes without a duration in the ranking of line 599                    *)
(***************************************************************************)
MaxRankWindow == 2   \* windows 0..MaxRankWindow minutes, step 1

\* a transit section without summary.duration and without times
UntimedSec(category) ==
    [transport |-> TRUE, category |-> category, mode |-> "", product |-> "",
     hasDuration |-> FALSE, duration |-> 0, dep |-> Null, arr |-> Null]

\* upstream answers: no route, a route of unknown duration, routes of 300 s
\* and 100 s, and a route whose summary duration is negative
RankResponses ==
    { [kind |-> "json", sections |-> <<>>],
      [kind |-> "json", sections |-> << UntimedSec("regionalTrain") >>],
      [kind |-> "json", sections |->
          << TransitSec("Regional Train", "regionalTrain", "", 150),
             TransitSec("Bus", "bus", "", 150) >>],
      [kind |-> "json", sections |->
          << TransitSec("Bus", "bus", "", 100) >>],
      [kind |-> "json", sections |->
          << TransitSec("Bus", "bus", "", -60) >>] }

RankQueries ==
    [windowMin : 0..MaxRankWindow, stepMin : {1}, mode : Modes, baseTs : {BaseTs},
     debug : {FALSE}, dticket : {FALSE}]

InitRank ==
    /\ cq \in RankQueries
    /\ upstream \in [Range(Candidates(cq.baseTs, cq.mode, cq.windowMin, cq.stepMin))
                        -> RankResponses]
    /\ sw = [s \in {1} |-> IdleSweep]
    /\ mq = <<>>
    /\ cache = EmptyCaches /\ bag = EmptyCaches /\ computes = <<>> /\ callers = <<>>
    /\ candidates = <<>> /\ cpc = "off"
    /\ pool = NoPool /\ wk = <<>>
    /\ lru = Off /\ best = Off
    /\ ad = Off /\ kq = Off
    /\ hd = Off
    /\ proc = "up"

\* no answer of RankResponses throws: the process stays up
NextRank ==
    \/ SweepCall(1, cq.dticket, cq.debug)
    \/ \E id \in DOMAIN computes : UpstreamAnswers(id)
    \/ MtStore
    \/ MtFinally
    \/ MtResume
    \/ MtThen
    \/ MtFin
    \/ MtEnd

SpecRank == InitRank /\ [][NextRank]_vars

\* the accepted routes of the finished sweep, in slot order (line 596)
RankAccepted == FilterBoolean(sw[1].pool.out, 1)

\* C34: in sweepTransit an accepted route whose duration is 0 or unknown is
\* ranked after every accepted route with a positive duration, and it is
\* returned as best only when no accepted route of the sweep has a positive
\* duration.
C34_UnknownDurationRankedLast ==
    (sw[1].st = "done" /\ sw[1].result.ok) =>
        LET ranked == SortResults(RankAccepted)
        IN  /\ sw[1].result.best = ranked[1]
            /\ \A x, y \in DOMAIN ranked :
                  (ranked[x].durationSec = 0 /\ ranked[y].durationSec > 0) => y < x
            /\ sw[1].result.best.durationSec = 0 =>
                  \A x \in DOMAIN RankAccepted : RankAccepted[x].durationSec <= 0

\* the first candidate got a route of unknown duration, a later one a route
\* of positive duration, and the later one was returned as best
C34_Witness ==
    /\ sw[1].st = "done" /\ sw[1].result.ok
    /\ Len(RankAccepted) >= 2
    /\ RankAccepted[1].durationSec = 0
    /\ sw[1].result.best.durationSec > 0
    /\ sw[1].result.best.ts # RankAccepted[1].ts

(***************************************************************************)
(* The order of sweepBest (SpecBest)                                        *)
(***************************************************************************)

\* a comes before b in the order (duration, transfers, walk minutes), both
\* durations known
LexBefore(a, b) ==
    \/ a.duration.value < b.duration.value
    \/ a.duration.value = b.duration.value /\ a.transfers < b.transfers
    \/ a.duration.value = b.duration.value /\ a.transfers = b.transfers
          /\ a.walk < b.walk

\* the route returned is minimal among the OK results of known duration
BestLexMinimalAmongKnown ==
    (best.st = "done" /\ best.result.status = "OK" /\ ~best.result.best.duration.null) =>
        \A x \in DOMAIN best.results :
            ~best.results[x].duration.null => ~LexBefore(best.results[x], best.result.best)

\* C35: the best route of sweepBest is minimal under the lexicographic
\* order (duration, transfers, walk minutes) among all OK candidate
\* results, and a result whose duration is null is never chosen as best
\* over a result with a known positive duration.
C35_BestLexMinimalNullNeverPreferred ==
    (best.st = "done" /\ best.result.status = "OK") =>
        /\ best.result.best \in Range(best.results)
        /\ \A x \in DOMAIN best.results :
              (~best.results[x].duration.null /\ ~best.result.best.duration.null)
                 => ~LexBefore(best.results[x], best.result.best)
        /\ best.result.best.duration.null =>
              \A x \in DOMAIN best.results :
                  best.results[x].duration.null \/ best.results[x].duration.value <= 0

(***************************************************************************)
(* GET /itinerary (src/server.js, lines 334-460): an outbound sweepBest    *)
(* call in arrive mode, then a return sweepBest call in depart mode.       *)
(* ENABLE_DB is unset, as in SpecBest. best holds the sweepBest call the   *)
(* handler awaits.                                                         *)
(***************************************************************************)
MaxItinWindow == 1   \* lead, slack and ret_window of 0..MaxItinWindow minutes

\* Math.round(n / 60) of an integer n
RoundDiv60(n) == (n + 30) \div 60

\* the requests of the model: with or without start and ziel, a provider,
\* the pickup interval [BaseTs - 60, BaseTs] and one minute of driving
ItinRequests ==
    [hasStartZiel : BOOLEAN, provider : {"auto", "google", "db"},
     pickupFrom : {BaseTs - 60}, pickupTo : {BaseTs}, driveMin : {1},
     lead : 0..MaxItinWindow, slack : 0..MaxItinWindow, step : {1},
     retW : 0..MaxItinWindow,
     \* whether GOOGLE_API_KEY is set in the environment
     key : BOOLEAN]

\* lines 376-387: the arguments of the outbound sweep
OutboundQuery(rq) ==
    [baseTs |-> rq.pickupTo + rq.slack * 60,
     windowMin |-> Max(0, RoundDiv60(rq.pickupTo + rq.slack * 60
                                         - (rq.pickupFrom - rq.lead * 60))),
     stepMin |-> rq.step, mode |-> "arrive"]

\* lines 391-402: the arguments of the return sweep
ReturnQuery(rq) ==
    [baseTs |-> rq.pickupTo + rq.driveMin * 60,
     windowMin |-> rq.retW, stepMin |-> rq.step, mode |-> "depart"]

IdleItin ==
    [st |-> "idle", rq |-> Undefined, out |-> Undefined, ret |-> Undefined,
     response |-> Undefined,
     \* the sweepBest calls made so far, by leg (history)
     legs |-> <<>>]

ItinAnswer(code, status, leg) == [code |-> code, status |-> status, leg |-> leg]

\* the request arrives (lines 334-387): 400 without start or ziel, 503 for
\* the DB provider, otherwise the outbound sweep is called
ItinRequest(rq) ==
    /\ hd.st = "idle"
    /\ IF ~rq.hasStartZiel
       THEN /\ hd' = [hd EXCEPT !.st = "answered", !.rq = rq,
                                !.response = ItinAnswer(400, "", "")]
            /\ UNCHANGED best
       ELSE IF rq.provider = "db"
       THEN /\ hd' = [hd EXCEPT !.st = "answered", !.rq = rq,
                                !.response = ItinAnswer(503, "DB_DISABLED", "")]
            /\ UNCHANGED best
       ELSE /\ hd' = [hd EXCEPT !.st = "outbound", !.rq = rq,
                                !.legs = Append(@, "outbound")]
            /\ best' = BestStart(IdleBest, rq.key, FALSE, OutboundQuery(rq))
    /\ UNCHANGED <<candVars, poolVars, cacheVars, sweepVars, lruVars, adapterVars, procVars>>

\* the handler resumes after `await sweepBest` of the outbound leg (lines
\* 378-401): 500 from the catch of line 459 when the sweep threw, 502 when
\* its status is not OK, otherwise the return sweep is called
ItinOutboundReturns(h, B) ==
    IF B.st = "threw"
    THEN [hd |-> [h EXCEPT !.st = "answered",
                           !.response = ItinAnswer(500, "proxy_error", "")],
          best |-> B]
    ELSE IF B.result.status # "OK"
    THEN [hd |-> [h EXCEPT !.st = "answered", !.out = B.result,
                           !.response = ItinAnswer(502, B.result.status, "outbound")],
          best |-> B]
    ELSE [hd |-> [h EXCEPT !.st = "return", !.out = B.result,
                           !.legs = Append(@, "return")],
          best |-> BestStart(IdleBest, h.rq.key, FALSE, ReturnQuery(h.rq))]

ItinAfterOutbound ==
    /\ hd.st = "outbound"
    /\ best.st \in {"done", "threw"}
    /\ \E n \in {ItinOutboundReturns(hd, best)} : hd' = n.hd /\ best' = n.best
    /\ UNCHANGED <<candVars, poolVars, cacheVars, sweepVars, lruVars, adapterVars, procVars>>

\* the handler resumes after `await sweepBest` of the return leg (lines
\* 392-459): 500 when the sweep threw, 502 when its status is not OK,
\* otherwise the response with status OK
ItinAfterReturn ==
    /\ hd.st = "return"
    /\ best.st \in {"done", "threw"}
    /\ hd' = IF best.st = "threw"
             THEN [hd EXCEPT !.st = "answered",
                             !.response = ItinAnswer(500, "proxy_error", "")]
             ELSE IF best.result.status # "OK"
             THEN [hd EXCEPT !.st = "answered", !.ret = best.result,
                             !.response = ItinAnswer(502, best.result.status, "return")]
             ELSE [hd EXCEPT !.st = "answered", !.ret = best.result,
                             !.response = ItinAnswer(200, "OK", "")]
    /\ UNCHANGED <<candVars, poolVars, cacheVars, sweepVars, lruVars, adapterVars, procVars,
                   entryVars>>

InitItin ==
    /\ hd = IdleItin
    /\ best = IdleBest
    /\ cq = NoQuery
    /\ candidates = <<>> /\ cpc = "off"
    /\ pool = NoPool /\ wk = <<>>
    /\ cache = EmptyCaches /\ bag = EmptyCaches /\ computes = <<>> /\ callers = <<>>
    /\ upstream = <<>> /\ sw = <<>> /\ mq = <<>>
    /\ lru = Off
    /\ ad = Off /\ kq = Off
    /\ proc = "up"

NextItin ==
    \/ \E rq \in ItinRequests : ItinRequest(rq)
    \/ \E which \in {"geoO", "geoD"}, resp \in GeoResponses : BestGeocodeAnswers(which, resp)
    \/ \E resp \in GoogleResponses : BestProbeAnswers(resp)
    \/ ItinAfterOutbound
    \/ ItinAfterReturn

SpecItin == InitItin /\ [][NextItin]_vars

(***************************************************************************)
(* Properties of the /itinerary handler (SpecItin)                         *)
(***************************************************************************)

\* the handler answered after the outbound sweep alone: best still holds
\* that sweep, which threw or returned a status other than OK
OutboundFailed ==
    /\ hd.st = "answered" /\ hd.legs = <<"outbound">>
    /\ (best.st = "threw" \/ (best.st = "done" /\ best.result.status # "OK"))

\* the return sweep is called only after an outbound sweep that returned OK,
\* an outbound sweep that did not is followed by no further sweepBest call,
\* and the response with status OK needs both sweeps OK
ItinOrderAndSuccess ==
    /\ IsPrefix(hd.legs, <<"outbound", "return">>)
    /\ (Len(hd.legs) = 2) => (hd.out # Undefined /\ hd.out.status = "OK")
    /\ OutboundFailed => hd.ret = Undefined
    /\ (hd.st = "answered" /\ hd.response.code = 200) =>
          (hd.out.status = "OK" /\ hd.ret.status = "OK")

\* an outbound sweep that returned a status other than OK is answered with
\* that status and leg 'outbound'
OutboundStatusAnswered ==
    (OutboundFailed /\ best.st = "done") =>
        hd.response = ItinAnswer(502, best.result.status, "outbound")

\* C36: in the /itinerary handler the return-leg sweep is started only
\* after the outbound-leg sweep has completed with status OK; when the
\* outbound sweep fails the handler answers with the outbound failure (leg
\* 'outbound') and issues no geocoding or route call for the return leg,
\* and a success response is produced only when both sweeps returned OK.
C36_ReturnOnlyAfterOutboundOk ==
    /\ IsPrefix(hd.legs, <<"outbound", "return">>)
    /\ (Len(hd.legs) = 2) => (hd.out # Undefined /\ hd.out.status = "OK")
    /\ OutboundFailed => (hd.response.code = 502 /\ hd.response.leg = "outbound")
    /\ (hd.st = "answered" /\ hd.response.code = 200) =>
          (hd.out.status = "OK" /\ hd.ret.status = "OK")

====
